---- MODULE Spec2Model ----
(***************************************************************************)
(* Sales analytics pipeline: parse -> validate/filter -> aggregate ->      *)
(* enrich -> render.                                                       *)
(*                                                                         *)
(* Conventions of the model                                                *)
(*  - a Python str is a sequence of one-character strings, so that strip,  *)
(*    startswith and digit extraction are computed character by character; *)
(*  - a Python value is a record [k, s, n]: k is its type ("str", "int",   *)
(*    "float", "nan", "none", "bool"), s the characters of a str, n the    *)
(*    number of an int, and of a float its value in thousandths (so that   *)
(*    round(x, 2) is not the identity).  "nan" is the float nan: every     *)
(*    ordered comparison with it is false;                                 *)
(*  - a dict is a function from its keys (strings) to values, a list is a  *)
(*    sequence;                                                            *)
(*  - a conversion that raises yields the value Err.                       *)
(***************************************************************************)
EXTENDS Integers, Sequences, FiniteSets, TLC

VARIABLES
    \* ---- validate_and_filter: arguments of the last call and its results
    transactions, region, min_amount, max_amount,
    valid_records, invalid_count, summary,
    \* ---- data_processor: the analysed records, the arguments n and
    \* threshold, and what each analysis returned
    records, top_n, low_threshold,
    total_revenue, region_sales, top_products, daily_trend, peak_day,
    low_performers,
    \* ---- api_handler: the arguments of the last enrich_sales_data call, the
    \* list it returned, the side-file data/enriched_sales_data.txt and
    \* whether save_enriched_data raised
    enrich_input, product_mapping, enriched, enriched_file, save_raised,
    \* ---- read_sales_data: the file at the path it is given and what the
    \* last call returned or raised
    source_file, read_result,
    \* ---- generate_sales_report: the arguments of the last call, the report
    \* file and the value returned
    report_txns, report_etxns, report_file, report_returned,
    \* ---- main: where the run is, the steps it announced, the parsed rows,
    \* how the catalog request ended and what fetch_all_products returned
    pc, steps, parsed, http, products

valVars == <<transactions, region, min_amount, max_amount,
             valid_records, invalid_count, summary>>

aggVars == <<records, top_n, low_threshold,
             total_revenue, region_sales, top_products, daily_trend, peak_day,
             low_performers>>

enrVars == <<enrich_input, product_mapping, enriched, enriched_file, save_raised>>

readVars == <<source_file, read_result>>

repVars == <<report_txns, report_etxns, report_file, report_returned>>

runVars == <<pc, steps, parsed, http, products>>

vars == <<valVars, aggVars, enrVars, readVars, repVars, runVars>>

----------------------------------------------------------------------------
(* Strings *)

Whitespace == {" ", "\t", "\n", "\r"}

DigitChars == {"0", "1", "2", "3", "4", "5", "6", "7", "8", "9"}

DigitVal(c) ==
    CASE c = "0" -> 0 [] c = "1" -> 1 [] c = "2" -> 2 [] c = "3" -> 3
      [] c = "4" -> 4 [] c = "5" -> 5 [] c = "6" -> 6 [] c = "7" -> 7
      [] c = "8" -> 8 [] c = "9" -> 9

DigitChar(d) ==
    CASE d = 0 -> "0" [] d = 1 -> "1" [] d = 2 -> "2" [] d = 3 -> "3"
      [] d = 4 -> "4" [] d = 5 -> "5" [] d = 6 -> "6" [] d = 7 -> "7"
      [] d = 8 -> "8" [] d = 9 -> "9"

RECURSIVE LStrip(_)
LStrip(s) == IF s # <<>> /\ Head(s) \in Whitespace THEN LStrip(Tail(s)) ELSE s

RECURSIVE RStrip(_)
RStrip(s) ==
    IF s # <<>> /\ s[Len(s)] \in Whitespace
    THEN RStrip(SubSeq(s, 1, Len(s) - 1))
    ELSE s

\* str.strip()
Strip(s) == RStrip(LStrip(s))

\* str.startswith(prefix)
StartsWith(s, prefix) ==
    Len(s) >= Len(prefix) /\ SubSeq(s, 1, Len(prefix)) = prefix

\* s.split(sep) for a one-character sep: the pieces between the separators
RECURSIVE SplitOn(_, _, _)
SplitOn(s, sep, piece) ==
    IF s = <<>> THEN <<piece>>
    ELSE IF Head(s) = sep THEN <<piece>> \o SplitOn(Tail(s), sep, <<>>)
    ELSE SplitOn(Tail(s), sep, Append(piece, Head(s)))

\* the decimal value of a non-empty sequence of digit characters
RECURSIVE DigitsToInt(_)
DigitsToInt(ds) ==
    IF ds = <<>> THEN 0
    ELSE 10 * DigitsToInt(SubSeq(ds, 1, Len(ds) - 1)) + DigitVal(ds[Len(ds)])

\* the decimal digits of a natural number
RECURSIVE NatToDigits(_)
NatToDigits(n) ==
    IF n < 10 THEN <<DigitChar(n)>>
    ELSE NatToDigits(n \div 10) \o <<DigitChar(n % 10)>>

AllDigits(s) == s # <<>> /\ \A i \in 1..Len(s) : s[i] \in DigitChars

----------------------------------------------------------------------------
(* Values *)

StrV(s)   == [k |-> "str",   s |-> s,    n |-> 0]
IntV(n)   == [k |-> "int",   s |-> <<>>, n |-> n]
FloatV(n) == [k |-> "float", s |-> <<>>, n |-> n]
BoolV(b)  == [k |-> "bool",  s |-> <<>>, n |-> IF b THEN 1 ELSE 0]
NaN       == [k |-> "nan",   s |-> <<>>, n |-> 0]
None      == [k |-> "none",  s |-> <<>>, n |-> 0]
Err       == [k |-> "err",   s |-> <<>>, n |-> 0]

\* a float given in whole units
Units(n) == FloatV(n * 1000)

Abs(n) == IF n < 0 THEN -n ELSE n

\* truncation toward zero, as int() of a float
TruncDiv(n, d) == IF n >= 0 THEN n \div d ELSE -((-n) \div d)

\* the fractional digits of a float, trailing zeros dropped, at least one kept
FracDigits(m) ==
    IF m % 1000 = 0 THEN <<"0">>
    ELSE IF m % 100 = 0 THEN <<DigitChar(m \div 100)>>
    ELSE IF m % 10 = 0 THEN <<DigitChar(m \div 100), DigitChar((m \div 10) % 10)>>
    ELSE <<DigitChar(m \div 100), DigitChar((m \div 10) % 10), DigitChar(m % 10)>>

\* str(v)
PyStr(v) ==
    CASE v.k = "str"   -> v.s
      [] v.k = "int"   -> (IF v.n < 0 THEN <<"-">> ELSE <<>>) \o NatToDigits(Abs(v.n))
      [] v.k = "float" -> (IF v.n < 0 THEN <<"-">> ELSE <<>>)
                            \o NatToDigits(Abs(v.n) \div 1000) \o <<".">>
                            \o FracDigits(Abs(v.n) % 1000)
      [] v.k = "nan"   -> <<"n", "a", "n">>
      [] v.k = "bool"  -> IF v.n = 1 THEN <<"T", "r", "u", "e">>
                                     ELSE <<"F", "a", "l", "s", "e">>
      [] v.k = "none"  -> <<"N", "o", "n", "e">>

\* the integer literal a str holds once stripped (optional sign, digits), or Err
ParseIntLiteral(s) ==
    LET t == Strip(s)
        signed == t # <<>> /\ Head(t) \in {"-", "+"}
        ds == IF signed THEN Tail(t) ELSE t
    IN IF AllDigits(ds)
       THEN IntV(IF signed /\ Head(t) = "-" THEN -DigitsToInt(ds) ELSE DigitsToInt(ds))
       ELSE Err

\* int(v): ValueError / TypeError become Err
PyInt(v) ==
    CASE v.k = "int"   -> v
      [] v.k = "bool"  -> IntV(v.n)
      [] v.k = "float" -> IntV(TruncDiv(v.n, 1000))
      [] v.k = "str"   -> ParseIntLiteral(v.s)
      [] OTHER         -> Err

\* float(v): the strings of the model are integer literals, "nan" or not numbers
PyFloat(v) ==
    CASE v.k = "float" -> v
      [] v.k = "nan"   -> NaN
      [] v.k = "int"   -> FloatV(v.n * 1000)
      [] v.k = "bool"  -> FloatV(v.n * 1000)
      [] v.k = "str"   -> IF Strip(v.s) = <<"n", "a", "n">> THEN NaN
                          ELSE IF ParseIntLiteral(v.s).k = "int"
                               THEN FloatV(ParseIntLiteral(v.s).n * 1000)
                               ELSE Err
      [] OTHER         -> Err

\* a <= b, a >= b on floats: false when either is nan
FloatLe(a, b) == a.k = "float" /\ b.k = "float" /\ a.n <= b.n
FloatGe(a, b) == a.k = "float" /\ b.k = "float" /\ a.n >= b.n

\* qty * price with qty an int and price a float
IntTimesFloat(q, p) == IF p.k = "nan" THEN NaN ELSE FloatV(q.n * p.n)

\* dict.get(key, default)
Get(t, key, default) == IF key \in DOMAIN t THEN t[key] ELSE default

\* dict.pop(key, None), as a new dict
Pop(t, key) == [f \in DOMAIN t \ {key} |-> t[f]]

\* d[key] = value, as a new dict
Put(t, key, value) == [f \in DOMAIN t \cup {key} |-> IF f = key THEN value ELSE t[f]]

----------------------------------------------------------------------------
(* utils/file_handler.py: validate_and_filter *)

EXPECTED_HEADERS ==
    <<"TransactionID", "Date", "ProductID", "ProductName",
      "Quantity", "UnitPrice", "CustomerID", "Region">>

Required == {EXPECTED_HEADERS[i] : i \in 1..Len(EXPECTED_HEADERS)}

\* RejectRule without the CustomerID test
RejectRule_NoCustomerTest(t) ==
    IF ~(Required \subseteq DOMAIN t) THEN 1
    ELSE IF \E f \in Required : Strip(PyStr(Get(t, f, StrV(<<>>)))) = <<>> THEN 2
    ELSE IF PyInt(t["Quantity"]) = Err \/ PyFloat(t["UnitPrice"]) = Err THEN 3
    ELSE IF PyInt(t["Quantity"]).n <= 0 \/ FloatLe(PyFloat(t["UnitPrice"]), FloatV(0)) THEN 4
    ELSE IF ~StartsWith(PyStr(t["TransactionID"]), <<"T">>) THEN 5
    ELSE IF ~StartsWith(PyStr(t["ProductID"]), <<"P">>) THEN 6
    ELSE 0

\* The rule that rejects t in the validation loop, in the order of the code's
\* tests; 0 when t passes them all.
RejectRule(t) ==
    IF ~(Required \subseteq DOMAIN t) THEN 1
    ELSE IF \E f \in Required : Strip(PyStr(Get(t, f, StrV(<<>>)))) = <<>> THEN 2
    ELSE IF PyInt(t["Quantity"]) = Err \/ PyFloat(t["UnitPrice"]) = Err THEN 3
    ELSE IF PyInt(t["Quantity"]).n <= 0 \/ FloatLe(PyFloat(t["UnitPrice"]), FloatV(0)) THEN 4
    ELSE IF ~StartsWith(PyStr(t["TransactionID"]), <<"T">>) THEN 5
    ELSE IF ~StartsWith(PyStr(t["ProductID"]), <<"P">>) THEN 6
    ELSE IF ~StartsWith(PyStr(t["CustomerID"]), <<"C">>) THEN 7
    ELSE 0

\* r = dict(t) with Quantity, UnitPrice normalised and the transient _amount
Normalised(t) ==
    LET qty == PyInt(t["Quantity"])
        price == PyFloat(t["UnitPrice"])
    IN Put(Put(Put(t, "Quantity", qty), "UnitPrice", price),
           "_amount", IntTimesFloat(qty, price))

\* the validation loop: one pass over the input, a rejected record adds one
\* to invalid_count and is skipped
RECURSIVE ValidationLoop(_, _, _)
ValidationLoop(ts, valid, invalid) ==
    IF ts = <<>> THEN [valid |-> valid, invalid |-> invalid]
    ELSE IF RejectRule(Head(ts)) # 0
         THEN ValidationLoop(Tail(ts), valid, invalid + 1)
         ELSE ValidationLoop(Tail(ts), Append(valid, Normalised(Head(ts))), invalid)

\* `if region:` / `is not None`
Truthy(v) == ~(v.k = "none" \/ (v.k = "str" /\ v.s = <<>>))

RegionMatches(r, rg) == Strip(PyStr(Get(r, "Region", StrV(<<>>)))) = rg.s

RegionFilter(rs, rg) ==
    IF Truthy(rg) THEN SelectSeq(rs, LAMBDA r : RegionMatches(r, rg)) ELSE rs

MinFilter(rs, mn) ==
    IF mn # None THEN SelectSeq(rs, LAMBDA r : FloatGe(r["_amount"], PyFloat(mn))) ELSE rs

\* MaxFilter with an exclusive bound
MaxFilter_Exclusive(rs, mx) ==
    IF mx # None
    THEN SelectSeq(rs, LAMBDA r : FloatLe(r["_amount"], PyFloat(mx))
                                   /\ r["_amount"] # PyFloat(mx))
    ELSE rs

MaxFilter(rs, mx) ==
    IF mx # None THEN SelectSeq(rs, LAMBDA r : FloatLe(r["_amount"], PyFloat(mx))) ELSE rs

\* MapPop leaving the key in place
MapPop_Keep(rs, key) == rs

MapPop(rs, key) == [i \in 1..Len(rs) |-> Pop(rs[i], key)]

validate_and_filter(ts, rg, mn, mx) ==
    LET loop == ValidationLoop(ts, <<>>, 0)
        before_region == Len(loop.valid)
        after_region == RegionFilter(loop.valid, rg)
        filtered_by_region == before_region - Len(after_region)
        before_amount == Len(after_region)
        after_amount == MaxFilter(MinFilter(after_region, mn), mx)
        filtered_by_amount == before_amount - Len(after_amount)
        final == MapPop(after_amount, "_amount")
    IN [valid_records |-> final,
        invalid_count |-> loop.invalid,
        summary |-> [total_input |-> Len(ts),
                     invalid |-> loop.invalid,
                     filtered_by_region |-> filtered_by_region,
                     filtered_by_amount |-> filtered_by_amount,
                     final_count |-> Len(final)]]

----------------------------------------------------------------------------
(* utils/data_processor.py *)

\* The characters of the model in code point order; str < str compares code
\* points character by character.
CodePointOrder ==
    <<"\t", "\n", "\r", " ", "+", "-", ".",
      "0", "1", "2", "3", "4", "5", "6", "7", "8", "9", ":",
      "A", "B", "C", "D", "E", "F", "G", "H", "I", "J", "K", "L", "M",
      "N", "O", "P", "Q", "R", "S", "T", "U", "V", "W", "X", "Y", "Z",
      "a", "b", "c", "d", "e", "f", "g", "h", "i", "j", "k", "l", "m",
      "n", "o", "p", "q", "r", "s", "t", "u", "v", "w", "x", "y", "z">>

Ord(c) == CHOOSE i \in 1..Len(CodePointOrder) : CodePointOrder[i] = c

RECURSIVE StrLess(_, _)
StrLess(a, b) ==
    IF b = <<>> THEN FALSE
    ELSE IF a = <<>> THEN TRUE
    ELSE IF Head(a) = Head(b) THEN StrLess(Tail(a), Tail(b))
    ELSE Ord(Head(a)) < Ord(Head(b))

\* list.sort / sorted: the stable sort of rows, Before(a, b) saying that a
\* sorts strictly before b.  An element comes after the elements that sort
\* strictly before it and after the earlier elements it ties with.
StableSort(rows, Before(_, _)) ==
    LET n == Len(rows)
        pos(i) == 1 + Cardinality({j \in 1..n :
                        \/ Before(rows[j], rows[i])
                        \/ (j < i /\ ~Before(rows[i], rows[j]))})
    IN [p \in 1..n |-> rows[CHOOSE i \in 1..n : pos(i) = p]]

\* the distinct elements of a list in order of first occurrence: the key
\* order of a dict filled in that order
RECURSIVE FirstOccurrences(_)
FirstOccurrences(ks) ==
    IF ks = <<>> THEN <<>>
    ELSE LET init == FirstOccurrences(SubSeq(ks, 1, Len(ks) - 1))
             last == ks[Len(ks)]
         IN IF \E i \in 1..Len(init) : init[i] = last THEN init ELSE Append(init, last)

\* float + float, exact
FloatAdd(a, b) == IF a.k = "nan" \/ b.k = "nan" THEN NaN ELSE FloatV(a.n + b.n)

\* round(x, 2) of a float x >= 0 given in thousandths.  An exact half rounds
\* to even; the inputs of the model never sum to a half, where the binary
\* representation of the float would decide.
Round2(x) ==
    IF x.k = "nan" THEN NaN
    ELSE LET q == x.n \div 10
             r == x.n % 10
         IN IF r < 5 \/ (r = 5 /\ q % 2 = 0) THEN FloatV(q * 10) ELSE FloatV((q + 1) * 10)

\* round(a / b * 100, 2) for floats a >= 0, b > 0
Percent2(a, b) ==
    LET q == (a.n * 10000) \div b.n
        r2 == 2 * ((a.n * 10000) % b.n)
    IN IF r2 < b.n \/ (r2 = b.n /\ q % 2 = 0) THEN FloatV(q * 10) ELSE FloatV((q + 1) * 10)

sUnknown == <<"U", "n", "k", "n", "o", "w", "n">>

\* str(t.get(key, '')).strip() or 'Unknown'
KeyOrUnknown(t, key) ==
    LET v == Strip(PyStr(Get(t, key, StrV(<<>>))))
    IN IF v = <<>> THEN sUnknown ELSE v

\* _amount returning the price alone
Amount_PriceOnly(t) ==
    LET price == PyFloat(Get(t, "UnitPrice", FloatV(0)))
    IN IF price = Err THEN FloatV(0) ELSE price

\* _amount(txn)
Amount(t) ==
    LET qty == PyInt(Get(t, "Quantity", IntV(0)))
        price == PyFloat(Get(t, "UnitPrice", FloatV(0)))
    IN IF qty = Err \/ price = Err THEN FloatV(0) ELSE IntTimesFloat(qty, price)

\* int(t.get('Quantity', 0)), 0 when it raises
QuantityOrZero(t) ==
    LET q == PyInt(Get(t, "Quantity", IntV(0)))
    IN IF q = Err THEN 0 ELSE q.n

\* the accumulation total += f(t) over the records, in order
RECURSIVE SumAmounts(_)
SumAmounts(ts) ==
    IF ts = <<>> THEN FloatV(0)
    ELSE FloatAdd(SumAmounts(SubSeq(ts, 1, Len(ts) - 1)), Amount(ts[Len(ts)]))

RECURSIVE SumQuantities(_)
SumQuantities(ts) ==
    IF ts = <<>> THEN 0
    ELSE SumQuantities(SubSeq(ts, 1, Len(ts) - 1)) + QuantityOrZero(ts[Len(ts)])

calculate_total_revenue(ts) == SumAmounts(ts)

\* the rows (region, stats) in order of first occurrence of the region
RegionRows(ts) ==
    LET regionOf(t) == KeyOrUnknown(t, "Region")
        keys == FirstOccurrences([i \in 1..Len(ts) |-> regionOf(ts[i])])
        group(r) == SelectSeq(ts, LAMBDA t : regionOf(t) = r)
        totals(r) == SumAmounts(group(r))
        counts(r) == Len(group(r))
        grand == SumAmounts(ts)
    IN [i \in 1..Len(keys) |->
          [region |-> keys[i],
           total_sales |-> totals(keys[i]),
           transaction_count |-> counts(keys[i]),
           percentage |-> IF grand.k = "float" /\ grand.n > 0
                          THEN Percent2(totals(keys[i]), grand)
                          ELSE FloatV(0)]]

Reverse(rows) == [i \in 1..Len(rows) |-> rows[Len(rows) + 1 - i]]

\* region_wise_sales sorting ascending and reversing the result
region_wise_sales_Reversed(ts) ==
    Reverse(StableSort(RegionRows(ts), LAMBDA a, b : a.total_sales.n < b.total_sales.n))

\* The dict region_wise_sales returns, as the list of its items in key order.
region_wise_sales(ts) ==
    StableSort(RegionRows(ts), LAMBDA a, b : a.total_sales.n > b.total_sales.n)

\* the rows (name, quantity, revenue) of the products in order of first
\* occurrence
ProductRows(ts) ==
    LET nameOf(t) == KeyOrUnknown(t, "ProductName")
        keys == FirstOccurrences([i \in 1..Len(ts) |-> nameOf(ts[i])])
        group(nm) == SelectSeq(ts, LAMBDA t : nameOf(t) = nm)
    IN [i \in 1..Len(keys) |->
          [name |-> keys[i],
           quantity |-> SumQuantities(group(keys[i])),
           revenue |-> SumAmounts(group(keys[i]))]]

Max(a, b) == IF a >= b THEN a ELSE b
Min(a, b) == IF a <= b THEN a ELSE b

\* rows[:k] for k >= 0
Take(rows, k) == SubSeq(rows, 1, Min(k, Len(rows)))

\* top_selling_products ranking by quantity alone
top_selling_products_QuantityOnly(ts, n) ==
    Take(StableSort(ProductRows(ts), LAMBDA a, b : a.quantity > b.quantity), Max(n, 0))

top_selling_products(ts, n) ==
    LET rows == StableSort(ProductRows(ts),
                    LAMBDA a, b : \/ a.quantity > b.quantity
                                  \/ (a.quantity = b.quantity /\ a.revenue.n > b.revenue.n))
    IN Take(rows, Max(n, 0))

\* low_performing_products keeping quantity <= threshold
low_performing_products_Inclusive(ts, threshold) ==
    LET rows == SelectSeq(ProductRows(ts), LAMBDA r : r.quantity <= threshold)
    IN StableSort(rows,
           LAMBDA a, b : \/ a.quantity < b.quantity
                         \/ (a.quantity = b.quantity /\ a.revenue.n < b.revenue.n)
                         \/ (a.quantity = b.quantity /\ a.revenue.n = b.revenue.n
                             /\ StrLess(a.name, b.name)))

low_performing_products(ts, threshold) ==
    LET rows == SelectSeq(ProductRows(ts), LAMBDA r : r.quantity < threshold)
    IN StableSort(rows,
           LAMBDA a, b : \/ a.quantity < b.quantity
                         \/ (a.quantity = b.quantity /\ a.revenue.n < b.revenue.n)
                         \/ (a.quantity = b.quantity /\ a.revenue.n = b.revenue.n
                             /\ StrLess(a.name, b.name)))

\* The dict daily_sales_trend returns, as the list of its items in key order.
daily_sales_trend(ts) ==
    LET dateOf(t) == Strip(PyStr(Get(t, "Date", StrV(<<>>))))
        custOf(t) == Strip(PyStr(Get(t, "CustomerID", StrV(<<>>))))
        dated == SelectSeq(ts, LAMBDA t : dateOf(t) # <<>>)
        keys == FirstOccurrences([i \in 1..Len(dated) |-> dateOf(dated[i])])
        sortedKeys == StableSort(keys, StrLess)
        group(d) == SelectSeq(dated, LAMBDA t : dateOf(t) = d)
    IN [i \in 1..Len(sortedKeys) |->
          [date |-> sortedKeys[i],
           revenue |-> Round2(SumAmounts(group(sortedKeys[i]))),
           transaction_count |-> Len(group(sortedKeys[i])),
           unique_customers |->
               Cardinality({custOf(group(sortedKeys[i])[j]) :
                               j \in 1..Len(group(sortedKeys[i]))} \ {<<>>})]]

\* max returning the last of the rows of maximal revenue
FirstMaxRevenue_Last(rows) ==
    rows[CHOOSE i \in 1..Len(rows) :
            /\ \A j \in 1..Len(rows) : rows[j].revenue.n <= rows[i].revenue.n
            /\ \A j \in (i + 1)..Len(rows) : rows[j].revenue.n < rows[i].revenue.n]

\* max(rows, key = revenue): the first row no later row exceeds and that
\* exceeds every earlier one
FirstMaxRevenue(rows) ==
    rows[CHOOSE i \in 1..Len(rows) :
            /\ \A j \in 1..Len(rows) : rows[j].revenue.n <= rows[i].revenue.n
            /\ \A j \in 1..(i - 1) : rows[j].revenue.n < rows[i].revenue.n]

NoPeak == [date |-> <<>>, revenue |-> None, transaction_count |-> 0, found |-> FALSE]

find_peak_sales_day(ts) ==
    LET trend == daily_sales_trend(ts)
    IN IF trend = <<>> THEN NoPeak
       ELSE LET rec == FirstMaxRevenue(trend)
            IN [date |-> rec.date, revenue |-> rec.revenue,
                transaction_count |-> rec.transaction_count, found |-> TRUE]

----------------------------------------------------------------------------
(* Inputs of validate_and_filter *)

MaxTxns == 3

sNorth == <<"N", "o", "r", "t", "h">>
sSouth == <<"S", "o", "u", "t", "h">>

BaseTxn ==
    [TransactionID |-> StrV(<<"T", "1">>),
     Date          |-> StrV(<<"d", "1">>),
     ProductID     |-> StrV(<<"P", "1">>),
     ProductName   |-> StrV(<<"W">>),
     Quantity      |-> IntV(2),
     UnitPrice     |-> Units(5),
     CustomerID    |-> StrV(<<"C", "1">>),
     Region        |-> StrV(sNorth)]

\* Records a caller can pass: well-formed ones whose Region is the requested
\* one, differs from it by case or only by surrounding blanks, with amounts
\* below, at and above the bounds; one record per validation test that is the
\* first to fail on it, one with a nan price and one failing several tests.
TxnUniverse ==
    { BaseTxn,
      [BaseTxn EXCEPT !.Region = StrV(<<"n", "o", "r", "t", "h">>), !.Quantity = IntV(1)],
      [BaseTxn EXCEPT !.Region = StrV(<<" ">> \o sNorth \o <<" ">>), !.Quantity = IntV(3)],
      Pop(BaseTxn, "Region"),
      [BaseTxn EXCEPT !.Date = StrV(<<" ">>)],
      [BaseTxn EXCEPT !.Quantity = StrV(<<"a", "b", "c">>)],
      [BaseTxn EXCEPT !.Quantity = IntV(0)],
      [BaseTxn EXCEPT !.UnitPrice = NaN],
      [BaseTxn EXCEPT !.TransactionID = StrV(<<"X", "1">>)],
      [BaseTxn EXCEPT !.ProductID = StrV(<<"Q", "1">>)],
      [BaseTxn EXCEPT !.CustomerID = StrV(<<"X", "1">>)],
      Pop([BaseTxn EXCEPT !.Quantity = IntV(0), !.CustomerID = StrV(<<"X", "1">>)], "Region") }

\* Filter arguments <<region, min_amount, max_amount>>: none, the empty
\* region, a region, and bounds equal to the amount of BaseTxn.
FilterChoices ==
    { <<None, None, None>>,
      <<StrV(<<>>), None, Units(10)>>,
      <<StrV(sNorth), None, None>>,
      <<StrV(sNorth), Units(10), None>>,
      <<StrV(sNorth), None, Units(10)>>,
      <<None, Units(10), Units(10)>> }

InsertAt(s, i, e) == SubSeq(s, 1, i - 1) \o <<e>> \o SubSeq(s, i, Len(s))
RemoveAt(s, i) == SubSeq(s, 1, i - 1) \o SubSeq(s, i + 1, Len(s))

SetResults(res) ==
    /\ valid_records' = res.valid_records
    /\ invalid_count' = res.invalid_count
    /\ summary' = res.summary

\* The first call: no record, any filter arguments.
ValInit ==
    /\ transactions = <<>>
    /\ \E f \in FilterChoices :
           /\ region = f[1]
           /\ min_amount = f[2]
           /\ max_amount = f[3]
    /\ valid_records = validate_and_filter(<<>>, region, min_amount, max_amount).valid_records
    /\ invalid_count = validate_and_filter(<<>>, region, min_amount, max_amount).invalid_count
    /\ summary = validate_and_filter(<<>>, region, min_amount, max_amount).summary

\* validate_and_filter not called
ValIdle ==
    /\ transactions = <<>>
    /\ region = None
    /\ min_amount = None
    /\ max_amount = None
    /\ valid_records = <<>>
    /\ invalid_count = 0
    /\ summary = validate_and_filter(<<>>, None, None, None).summary

\* validate_and_filter called with the same filters on the previous input with
\* one more record in it, at any position
ValidateWithRecordAdded ==
    /\ Len(transactions) < MaxTxns
    /\ \E t \in TxnUniverse, i \in 1..(Len(transactions) + 1) :
         /\ transactions' = InsertAt(transactions, i, t)
         /\ SetResults(validate_and_filter(transactions', region, min_amount, max_amount))
    /\ UNCHANGED <<region, min_amount, max_amount>>

ValNext == ValidateWithRecordAdded /\ UNCHANGED <<aggVars, enrVars, readVars, repVars, runVars>>

----------------------------------------------------------------------------
(* Inputs of the analyses *)

MaxRecords == 4

sD01 == <<"0", "1">>
sD02 == <<"0", "2">>
sD10 == <<"1", "0">>

\* Records with regions, products and dates that tie on their totals, with a
\* blank Region, ProductName, Date and CustomerID, and with amounts that
\* differ only below the cent.
AggUniverse ==
    { [BaseTxn EXCEPT !.Date = StrV(sD01)],
      [TransactionID |-> StrV(<<"T", "2">>), Date |-> StrV(sD02),
       ProductID |-> StrV(<<"P", "2">>), ProductName |-> StrV(<<"G">>),
       Quantity |-> IntV(2), UnitPrice |-> Units(5),
       CustomerID |-> StrV(<<"C", "2">>), Region |-> StrV(sSouth)],
      [TransactionID |-> StrV(<<"T", "3">>), Date |-> StrV(sD10),
       ProductID |-> StrV(<<"P", "1">>), ProductName |-> StrV(<<" ", "W">>),
       Quantity |-> IntV(1), UnitPrice |-> FloatV(2004),
       CustomerID |-> StrV(<<"C", "1">>), Region |-> StrV(<<" ">>)],
      [TransactionID |-> StrV(<<"T", "4">>), Date |-> StrV(<<>>),
       ProductID |-> StrV(<<"P", "4">>), ProductName |-> StrV(<<>>),
       Quantity |-> IntV(3), UnitPrice |-> Units(1),
       CustomerID |-> StrV(<<"C", "1">>), Region |-> StrV(sNorth)],
      [TransactionID |-> StrV(<<"T", "5">>), Date |-> StrV(sD01),
       ProductID |-> StrV(<<"P", "5">>), ProductName |-> StrV(<<"A">>),
       Quantity |-> IntV(2), UnitPrice |-> Units(7),
       CustomerID |-> StrV(<<"C", "2">>), Region |-> StrV(sSouth)],
      [TransactionID |-> StrV(<<"T", "6">>), Date |-> StrV(sD02),
       ProductID |-> StrV(<<"P", "2">>), ProductName |-> StrV(<<"G">>),
       Quantity |-> IntV(1), UnitPrice |-> Units(2),
       CustomerID |-> StrV(<<>>), Region |-> StrV(<<"E", "a", "s", "t">>)] }

TopNChoices == {-1, 0, 1, 2, 5}
ThresholdChoices == {2, 3, 10}

SetAnalyses(ts, n, threshold) ==
    /\ total_revenue' = calculate_total_revenue(ts)
    /\ region_sales' = region_wise_sales(ts)
    /\ top_products' = top_selling_products(ts, n)
    /\ daily_trend' = daily_sales_trend(ts)
    /\ peak_day' = find_peak_sales_day(ts)
    /\ low_performers' = low_performing_products(ts, threshold)

\* the analyses of no record, for any n and threshold
AggInit ==
    /\ records = <<>>
    /\ top_n \in TopNChoices
    /\ low_threshold \in ThresholdChoices
    /\ total_revenue = calculate_total_revenue(<<>>)
    /\ region_sales = region_wise_sales(<<>>)
    /\ top_products = top_selling_products(<<>>, top_n)
    /\ daily_trend = daily_sales_trend(<<>>)
    /\ peak_day = find_peak_sales_day(<<>>)
    /\ low_performers = low_performing_products(<<>>, low_threshold)

\* the analyses not run
AggIdle ==
    /\ records = <<>>
    /\ top_n = 0
    /\ low_threshold = 0
    /\ total_revenue = calculate_total_revenue(<<>>)
    /\ region_sales = <<>>
    /\ top_products = <<>>
    /\ daily_trend = <<>>
    /\ peak_day = NoPeak
    /\ low_performers = <<>>

\* the analyses run, with the same n and threshold, on the previous records
\* and one more
AnalyzeWithRecordAdded ==
    /\ Len(records) < MaxRecords
    /\ \E t \in AggUniverse :
         /\ records' = Append(records, t)
         /\ SetAnalyses(records', top_n, low_threshold)
    /\ UNCHANGED <<top_n, low_threshold>>

AggNext == AnalyzeWithRecordAdded /\ UNCHANGED <<valVars, enrVars, readVars, repVars, runVars>>

----------------------------------------------------------------------------
(* utils/api_handler.py *)

\* the characters of a column name
NameChars(name) ==
    CASE name = "TransactionID" -> <<"T", "r", "a", "n", "s", "a", "c", "t", "i", "o", "n", "I", "D">>
      [] name = "Date" -> <<"D", "a", "t", "e">>
      [] name = "ProductID" -> <<"P", "r", "o", "d", "u", "c", "t", "I", "D">>
      [] name = "ProductName" -> <<"P", "r", "o", "d", "u", "c", "t", "N", "a", "m", "e">>
      [] name = "Quantity" -> <<"Q", "u", "a", "n", "t", "i", "t", "y">>
      [] name = "UnitPrice" -> <<"U", "n", "i", "t", "P", "r", "i", "c", "e">>
      [] name = "CustomerID" -> <<"C", "u", "s", "t", "o", "m", "e", "r", "I", "D">>
      [] name = "Region" -> <<"R", "e", "g", "i", "o", "n">>
      [] name = "API_Category" -> <<"A", "P", "I", "_", "C", "a", "t", "e", "g", "o", "r", "y">>
      [] name = "API_Brand" -> <<"A", "P", "I", "_", "B", "r", "a", "n", "d">>
      [] name = "API_Rating" -> <<"A", "P", "I", "_", "R", "a", "t", "i", "n", "g">>
      [] name = "API_Match" -> <<"A", "P", "I", "_", "M", "a", "t", "c", "h">>

ENRICHED_HEADER ==
    <<"TransactionID", "Date", "ProductID", "ProductName", "Quantity", "UnitPrice",
      "CustomerID", "Region", "API_Category", "API_Brand", "API_Rating", "API_Match">>

\* re.sub(r'\D+', '', s): s without its characters that are not digits
RECURSIVE RemoveNonDigits(_)
RemoveNonDigits(s) ==
    IF s = <<>> THEN <<>>
    ELSE IF Head(s) \in DigitChars THEN <<Head(s)>> \o RemoveNonDigits(Tail(s))
    ELSE RemoveNonDigits(Tail(s))

\* the digits that end s
RECURSIVE TrailingDigits(_)
TrailingDigits(s) ==
    IF s # <<>> /\ s[Len(s)] \in DigitChars
    THEN TrailingDigits(SubSeq(s, 1, Len(s) - 1)) \o <<s[Len(s)]>>
    ELSE <<>>

\* the digits that follow the first character of s
RECURSIVE LeadingDigits(_)
LeadingDigits(s) ==
    IF s # <<>> /\ Head(s) \in DigitChars
    THEN <<Head(s)>> \o LeadingDigits(Tail(s))
    ELSE <<>>

\* _extract_numeric_product_id reading the digits that follow the prefix
extract_numeric_product_id_AfterPrefix(product_id) ==
    LET s == PyStr(product_id)
        digits == IF s = <<>> THEN <<>> ELSE LeadingDigits(Tail(s))
    IN IF digits # <<>> THEN IntV(DigitsToInt(digits)) ELSE None

\* _extract_numeric_product_id reading the digits that end the id
extract_numeric_product_id_Suffix(product_id) ==
    LET digits == TrailingDigits(PyStr(product_id))
    IN IF digits # <<>> THEN IntV(DigitsToInt(digits)) ELSE None

\* _extract_numeric_product_id
extract_numeric_product_id(product_id) ==
    LET digits == RemoveNonDigits(PyStr(product_id))
    IN IF digits # <<>> THEN IntV(DigitsToInt(digits)) ELSE None

\* the record enrich_sales_data makes of t
EnrichOne(t, mapping) ==
    LET num_id == extract_numeric_product_id(Get(t, "ProductID", StrV(<<>>)))
        matched == num_id # None /\ num_id.n \in DOMAIN mapping
        info == mapping[num_id.n]
        api == IF matched
               THEN [API_Category |-> info.category, API_Brand |-> info.brand,
                     API_Rating |-> info.rating, API_Match |-> BoolV(TRUE)]
               ELSE [API_Category |-> None, API_Brand |-> None,
                     API_Rating |-> None, API_Match |-> BoolV(FALSE)]
    IN [f \in DOMAIN t \cup DOMAIN api |-> IF f \in DOMAIN api THEN api[f] ELSE t[f]]

\* sep.join(parts)
RECURSIVE Join(_, _)
Join(parts, sep) ==
    IF parts = <<>> THEN <<>>
    ELSE IF Len(parts) = 1 THEN parts[1]
    ELSE parts[1] \o sep \o Join(Tail(parts), sep)

\* what each f.write appends after the joined fields
LineEnd == <<>>

\* '' if the value is None else str(value)
EmptyIfNone(v) == IF v = None THEN <<>> ELSE PyStr(v)

\* the fields of the row save_enriched_data writes for t
RowFields(t) ==
    LET qv == Get(t, "Quantity", StrV(<<>>))
        pv == Get(t, "UnitPrice", StrV(<<>>))
    IN <<PyStr(Get(t, "TransactionID", StrV(<<>>))),
         PyStr(Get(t, "Date", StrV(<<>>))),
         PyStr(Get(t, "ProductID", StrV(<<>>))),
         PyStr(Get(t, "ProductName", StrV(<<>>))),
         IF Strip(PyStr(qv)) = <<>> THEN <<>> ELSE PyStr(PyInt(qv)),
         IF Strip(PyStr(pv)) = <<>> THEN <<>> ELSE PyStr(PyFloat(pv)),
         PyStr(Get(t, "CustomerID", StrV(<<>>))),
         PyStr(Get(t, "Region", StrV(<<>>))),
         EmptyIfNone(Get(t, "API_Category", None)),
         EmptyIfNone(Get(t, "API_Brand", None)),
         EmptyIfNone(Get(t, "API_Rating", None)),
         PyStr(BoolV(Get(t, "API_Match", BoolV(FALSE)).n = 1))>>

RECURSIVE RowsText(_)
RowsText(ts) ==
    IF ts = <<>> THEN <<>>
    ELSE Join(RowFields(Head(ts)), <<"|">>) \o LineEnd \o RowsText(Tail(ts))

\* the text save_enriched_data writes
save_enriched_data(ts) ==
    Join([i \in 1..Len(ENRICHED_HEADER) |-> NameChars(ENRICHED_HEADER[i])], <<"|">>)
      \o LineEnd \o RowsText(ts)

\* the list enrich_sales_data builds
enrich_sales_data(ts, mapping) == [i \in 1..Len(ts) |-> EnrichOne(ts[i], mapping)]

\* EnrichReturn with no list returned once save_enriched_data raised
EnrichReturn_Propagating(rec_list, raised) == IF raised THEN <<>> ELSE rec_list

\* what enrich_sales_data returns once save_enriched_data returned or raised:
\* the exception is caught and the list returned
EnrichReturn(rec_list, raised) == rec_list

----------------------------------------------------------------------------
(* Inputs of enrich_sales_data *)

MaxEnrich == 3

CatalogEntry(category, brand, rating) ==
    [title |-> StrV(<<"t">>), category |-> category, brand |-> brand, rating |-> rating]

sToys == <<"T", "o", "y", "s">>
sAcme == <<"A", "c", "m", "e">>

\* Mappings as create_product_mapping builds them: none, the catalog of the
\* spec's example, and catalogs holding the number made of all the digits of
\* P1a2 or only the number that ends it; an entry may lack its category.
MappingChoices ==
    { <<>>,
      [k \in {100} |-> CatalogEntry(StrV(sToys), StrV(sAcme), FloatV(4500))],
      [k \in {7, 12} |-> CatalogEntry(IF k = 12 THEN None ELSE StrV(sToys),
                                      StrV(sAcme), FloatV(k * 1000))],
      [k \in {2, 100} |-> CatalogEntry(StrV(sToys), None, IntV(k))] }

\* Transactions whose ProductID is P100, P999, P007, has digits separated by
\* a letter, has no digit, or is missing.
EnrichUniverse ==
    { [BaseTxn EXCEPT !.ProductID = StrV(<<"P", "1", "0", "0">>)],
      [BaseTxn EXCEPT !.ProductID = StrV(<<"P", "9", "9", "9">>)],
      [BaseTxn EXCEPT !.ProductID = StrV(<<"P", "0", "0", "7">>)],
      [BaseTxn EXCEPT !.ProductID = StrV(<<"P", "1", "a", "2">>)],
      [BaseTxn EXCEPT !.ProductID = StrV(<<"P">>)],
      Pop(BaseTxn, "ProductID") }

NoFile == [exists |-> FALSE, text |-> <<>>]

\* enrich_sales_data not called
EnrIdle ==
    /\ enrich_input = <<>>
    /\ product_mapping = <<>>
    /\ enriched = <<>>
    /\ enriched_file = NoFile
    /\ save_raised = FALSE

\* before the first call, for any mapping
EnrInit ==
    /\ enrich_input = <<>>
    /\ product_mapping \in MappingChoices
    /\ enriched = <<>>
    /\ enriched_file = NoFile
    /\ save_raised = FALSE

\* the side-file after save_enriched_data raised: untouched when the
\* directory or the file could not be opened, else opened for writing and
\* left with the header and the rows written before the exception
FilesAfterRaise(before, rec_list) ==
    {before} \cup {[exists |-> TRUE, text |-> save_enriched_data(SubSeq(rec_list, 1, k))] :
                     k \in 0..(Len(rec_list) - 1)}

\* enrich_sales_data called with the same mapping on the previous input and
\* one more record: the list is built; save_enriched_data overwrites the
\* side-file, or raises and the exception is swallowed; the list is returned
EnrichWithRecordAdded ==
    /\ Len(enrich_input) < MaxEnrich
    /\ \E t \in EnrichUniverse : enrich_input' = Append(enrich_input, t)
    /\ save_raised' \in BOOLEAN
    /\ enriched' = EnrichReturn(enrich_sales_data(enrich_input', product_mapping),
                                save_raised')
    /\ IF save_raised'
       THEN enriched_file' \in FilesAfterRaise(enriched_file,
                                 enrich_sales_data(enrich_input', product_mapping))
       ELSE enriched_file' = [exists |-> TRUE,
                              text |-> save_enriched_data(
                                         enrich_sales_data(enrich_input', product_mapping))]
    /\ UNCHANGED product_mapping

EnrNext == EnrichWithRecordAdded /\ UNCHANGED <<valVars, aggVars, readVars, repVars, runVars>>

----------------------------------------------------------------------------
(* utils/file_handler.py: read_sales_data *)

\* the byte order mark U+FEFF, one character of the decoded text
BOM == "BOM"

UpperLetters ==
    <<"A", "B", "C", "D", "E", "F", "G", "H", "I", "J", "K", "L", "M",
      "N", "O", "P", "Q", "R", "S", "T", "U", "V", "W", "X", "Y", "Z">>

LowerLetters ==
    <<"a", "b", "c", "d", "e", "f", "g", "h", "i", "j", "k", "l", "m",
      "n", "o", "p", "q", "r", "s", "t", "u", "v", "w", "x", "y", "z">>

\* str.lower()
Lower(s) ==
    [i \in 1..Len(s) |->
       IF \E j \in 1..26 : UpperLetters[j] = s[i]
       THEN LowerLetters[CHOOSE j \in 1..26 : UpperLetters[j] = s[i]]
       ELSE s[i]]

\* sub in s
Contains(s, sub) ==
    \E i \in 1..(Len(s) - Len(sub) + 1) : SubSeq(s, i, i + Len(sub) - 1) = sub

\* s.replace(c, '') for a character c
Without(s, c) == SelectSeq(s, LAMBDA x : x # c)

\* '|'.join(EXPECTED_HEADERS)
ExpectedHeaderLine ==
    Join([i \in 1..Len(EXPECTED_HEADERS) |-> NameChars(EXPECTED_HEADERS[i])], <<"|">>)

looks_like_header(line) ==
    \/ Without(Strip(line), " ") = ExpectedHeaderLine
    \/ Cardinality({t \in Required : Contains(Lower(line), Lower(NameChars(t)))}) >= 4

\* s.lstrip(chars) for a set of characters
RECURSIVE LStripChars(_, _)
LStripChars(s, chars) ==
    IF s # <<>> /\ Head(s) \in chars THEN LStripChars(Tail(s), chars) ELSE s

\* s.rstrip(chars) for a set of characters
RECURSIVE RStripChars(_, _)
RStripChars(s, chars) ==
    IF s # <<>> /\ s[Len(s)] \in chars
    THEN RStripChars(SubSeq(s, 1, Len(s) - 1), chars)
    ELSE s

\* the characters line.rstrip('') removes: none
RightTrimmed == {}

\* raw_lines with the byte order mark stripped from the first line
WithoutBOM(raw) ==
    IF raw = <<>> THEN raw ELSE <<LStripChars(raw[1], {BOM})>> \o Tail(raw)

\* idx after the loop over the leading blank lines
RECURSIVE SkipBlank(_, _)
SkipBlank(raw, idx) ==
    IF idx <= Len(raw) /\ Strip(raw[idx]) = <<>> THEN SkipBlank(raw, idx + 1) ELSE idx

\* idx after the header test
SkipHeader(raw, idx) ==
    IF idx <= Len(raw) /\ looks_like_header(raw[idx]) THEN idx + 1 ELSE idx

\* the loop that fills cleaned
RECURSIVE CleanedFrom(_)
CleanedFrom(ls) ==
    IF ls = <<>> THEN <<>>
    ELSE LET s == RStripChars(Head(ls), RightTrimmed)
         IN (IF Strip(s) # <<>> THEN <<s>> ELSE <<>>) \o CleanedFrom(Tail(ls))

\* read_sales_data on a file [exists, lines]: lines is what readlines() gives
\* for the decoded content; error is "FileNotFoundError" when it raises
read_sales_data(file) ==
    IF ~file.exists THEN [error |-> "FileNotFoundError", lines |-> <<>>]
    ELSE LET raw == WithoutBOM(file.lines)
             idx == SkipHeader(raw, SkipBlank(raw, 1))
         IN [error |-> "", lines |-> CleanedFrom(SubSeq(raw, idx, Len(raw)))]

----------------------------------------------------------------------------
(* Inputs of read_sales_data *)

MaxLines == 3

sLine1 == <<"T", "1", "|", "d", "1", "|", "P", "1", "0", "0", "|", "W", "|", "2",
            "|", "5", ".", "0", "|", "C", "1", "|", "N", "o", "r", "t", "h">>

sLine2 == <<"T", "2", "|", "d", "2", "|", "P", "9", "|", "W", "|", "1",
            "|", "2", ".", "5", "|", "C", "2", "|", "S", "o", "u", "t", "h">>

\* four header names in lower case, three header names
sFourNames == Lower(NameChars("Date") \o <<"|">> \o NameChars("Quantity") \o <<"|">>
                      \o NameChars("Region") \o <<"|">> \o NameChars("UnitPrice"))

sThreeNames == NameChars("Date") \o <<"|">> \o NameChars("Quantity") \o <<"|">>
                 \o NameChars("Region")

\* Lines of a source file, without their terminator: empty, blank, the
\* expected header, the header preceded by the byte order mark and spaced,
\* a line naming four columns, a line naming three, a data line and a data
\* line followed by blanks.
LineUniverse ==
    { <<>>,
      <<" ", "\t">>,
      ExpectedHeaderLine,
      <<BOM, " ">> \o ExpectedHeaderLine \o <<" ">>,
      sFourNames,
      sThreeNames,
      sLine1,
      sLine2 \o <<" ", " ">> }

\* what readlines() gives for these lines: every line ends with LF, except
\* the last one when the file does not end with LF
ReadLines(bodies, final_newline) ==
    [i \in 1..Len(bodies) |->
       IF i < Len(bodies) \/ final_newline THEN Append(bodies[i], "\n") ELSE bodies[i]]

\* the line bodies of a file
Bodies(file) == [i \in 1..Len(file.lines) |-> RStripChars(file.lines[i], {"\n"})]

\* read_sales_data not called
ReadIdle ==
    /\ source_file = [exists |-> FALSE, lines |-> <<>>]
    /\ read_result = [error |-> "", lines |-> <<>>]

\* the first call: the path does not exist or names an empty file
ReadInit ==
    /\ source_file \in {[exists |-> e, lines |-> <<>>] : e \in BOOLEAN}
    /\ read_result = read_sales_data(source_file)

\* read_sales_data called on the file with one more line at its end, the
\* file ending with LF or not
ReadWithLineAdded ==
    /\ source_file.exists
    /\ Len(source_file.lines) < MaxLines
    /\ \E body \in LineUniverse, final_newline \in BOOLEAN :
         /\ final_newline \/ body # <<>>
         /\ source_file' = [exists |-> TRUE,
                            lines |-> ReadLines(Append(Bodies(source_file), body),
                                                final_newline)]
    /\ read_result' = read_sales_data(source_file')

ReadNext == ReadWithLineAdded /\ UNCHANGED <<valVars, aggVars, enrVars, repVars, runVars>>

----------------------------------------------------------------------------
(* utils/reporting.py *)
\* A text is the sequence of its characters; the literal fragments of a
\* format string are kept whole, one element each.

\* the currency symbol of main.py, U+20B9, one character
CURRENCY_SYMBOL == <<"RUPEE">>

\* c repeated n times
Repeat(c, n) == [i \in 1..n |-> c]

\* f"{s:<w}" and f"{s:>w}"
PadRight(s, w) == s \o Repeat(" ", Max(w - Len(s), 0))
PadLeft(s, w) == Repeat(" ", Max(w - Len(s), 0)) \o s

\* the digits ds with a comma before every group of three from the right
RECURSIVE Grouped(_)
Grouped(ds) ==
    IF Len(ds) <= 3 THEN ds
    ELSE Grouped(SubSeq(ds, 1, Len(ds) - 3)) \o <<",">> \o SubSeq(ds, Len(ds) - 2, Len(ds))

\* num / den rounded to hundredths, in hundredths, for num >= 0 and den > 0.
\* An exact half rounds to even; the inputs of the model never give one,
\* where the binary representation of the float would decide.
RoundedHundredths(num, den) ==
    LET q == (num * 100) \div den
        r2 == 2 * ((num * 100) % den)
    IN IF r2 < den \/ (r2 = den /\ q % 2 = 0) THEN q ELSE q + 1

\* f"{x:.2f}" (commas FALSE) and f"{x:,.2f}" (commas TRUE) for x = num / den
Fixed2(num, den, commas) ==
    LET h == RoundedHundredths(num, den)
        whole == NatToDigits(h \div 100)
    IN (IF commas THEN Grouped(whole) ELSE whole)
         \o <<".", DigitChar((h % 100) \div 10), DigitChar(h % 10)>>

\* _fmt_money(value, currency_symbol) for value = num / den
FmtMoneyRatio(num, den, symbol) == symbol \o Fixed2(num, den, TRUE)

\* _fmt_money(value, currency_symbol) for a float
FmtMoney(v, symbol) == FmtMoneyRatio(v.n, 1000, symbol)

\* str(n) for an int n >= 0
IntText(n) == NatToDigits(n)

\* "\n".join(lines) + "\n"
RECURSIVE JoinLines(_)
JoinLines(lines) ==
    IF lines = <<>> THEN <<"\n">>
    ELSE IF Len(lines) = 1 THEN lines[1] \o <<"\n">>
    ELSE lines[1] \o <<"\n">> \o JoinLines(Tail(lines))

\* The dict customer_analysis returns, as the list of its items in key
\* order (utils/data_processor.py).
customer_analysis(ts) ==
    LET custOf(t) == KeyOrUnknown(t, "CustomerID")
        keys == FirstOccurrences([i \in 1..Len(ts) |-> custOf(ts[i])])
        group(c) == SelectSeq(ts, LAMBDA t : custOf(t) = c)
        names(c) == FirstOccurrences([i \in 1..Len(group(c)) |->
                                        KeyOrUnknown(group(c)[i], "ProductName")])
        items == [i \in 1..Len(keys) |->
                    [customer |-> keys[i],
                     total_spent |-> SumAmounts(group(keys[i])),
                     purchase_count |-> Len(group(keys[i])),
                     avg_order_value |->
                         FloatV(10 * RoundedHundredths(SumAmounts(group(keys[i])).n,
                                                       1000 * Len(group(keys[i])))),
                     products_bought |-> StableSort(names(keys[i]), StrLess)]]
    IN StableSort(items, LAMBDA a, b : a.total_spent.n > b.total_spent.n)

\* min(dates) and max(dates) of a non-empty list of strings
MinStr(ss) == CHOOSE i \in 1..Len(ss) : \A j \in 1..Len(ss) : ~StrLess(ss[j], ss[i])
MaxStr(ss) == CHOOSE i \in 1..Len(ss) : \A j \in 1..Len(ss) : ~StrLess(ss[i], ss[j])

\* the header block and the overall summary, for the total revenue and the
\* stripped dates of the transactions
SummaryLines(n, total, dates, generated_ts, symbol) ==
    << <<"============================================">>,
       <<"SALES ANALYTICS REPORT">>,
       <<"Generated: ">> \o generated_ts,
       <<"Records Processed: ">> \o IntText(n),
       <<"============================================">>,
       <<"OVERALL SUMMARY">>,
       <<"--------------------------------------------">>,
       <<"Total Revenue: ">> \o FmtMoney(total, symbol),
       <<"Total Transactions: ">> \o IntText(n),
       <<"Average Order Value: ">>
           \o (IF n > 0 THEN FmtMoneyRatio(total.n, 1000 * n, symbol)
                        ELSE FmtMoney(FloatV(0), symbol)),
       <<"Date Range: ">> \o (IF dates # <<>> THEN dates[MinStr(dates)] ELSE <<"N/A">>)
           \o <<" to ">> \o (IF dates # <<>> THEN dates[MaxStr(dates)] ELSE <<"N/A">>) >>

\* the non-empty stripped dates of the transactions
ReportDates(txns) ==
    SelectSeq([i \in 1..Len(txns) |-> Strip(PyStr(Get(txns[i], "Date", StrV(<<>>))))],
              LAMBDA d : d # <<>>)

RegionLine(r, symbol) ==
    PadRight(r.region, 12) \o PadLeft(FmtMoney(r.total_sales, symbol), 15) \o <<"  ">>
      \o PadLeft(Fixed2(r.percentage.n, 1000, FALSE), 11) \o <<"%  ">>
      \o PadLeft(IntText(r.transaction_count), 13)

\* the region table
RegionLines(region_stats, symbol) ==
    << <<"REGION-WISE PERFORMANCE">>,
       <<"--------------------------------------------">>,
       <<"Region                Sales    % of Total   Transactions">> >>
    \o [i \in 1..Len(region_stats) |-> RegionLine(region_stats[i], symbol)]

TopProductLine(idx, r, symbol) ==
    PadLeft(IntText(idx), 4) \o <<"  ">> \o PadRight(r.name, 30)
      \o PadLeft(IntText(r.quantity), 6) \o <<"  ">>
      \o PadLeft(FmtMoney(r.revenue, symbol), 15)

\* the table of the top 5 products
TopProductLines(top5_products, symbol) ==
    << <<"TOP 5 PRODUCTS">>,
       <<"--------------------------------------------">>,
       <<"Rank  Product Name                     Qty          Revenue">> >>
    \o [i \in 1..Len(top5_products) |-> TopProductLine(i, top5_products[i], symbol)]

TopCustomerLine(idx, r, symbol) ==
    PadLeft(IntText(idx), 4) \o <<"  ">> \o PadRight(r.customer, 12)
      \o PadLeft(FmtMoney(r.total_spent, symbol), 15) \o <<"  ">>
      \o PadLeft(IntText(r.purchase_count), 12)

\* the table of the top 5 customers
TopCustomerLines(top5_customers, symbol) ==
    << <<"TOP 5 CUSTOMERS">>,
       <<"--------------------------------------------">>,
       <<"Rank  Customer ID     Total Spent   Order Count">> >>
    \o [i \in 1..Len(top5_customers) |-> TopCustomerLine(i, top5_customers[i], symbol)]

TrendLine(r, symbol) ==
    PadRight(r.date, 12) \o PadLeft(FmtMoney(r.revenue, symbol), 15) \o <<"  ">>
      \o PadLeft(IntText(r.transaction_count), 7) \o <<"  ">>
      \o PadLeft(IntText(r.unique_customers), 14)

\* the daily trend table
TrendLines(trend, symbol) ==
    << <<"DAILY SALES TREND">>,
       <<"--------------------------------------------">>,
       <<"Date                Revenue    Trans    Unique Cust.">> >>
    \o [i \in 1..Len(trend) |-> TrendLine(trend[i], symbol)]

LowProductLine(r, symbol) ==
    PadRight(r.name, 30) \o PadLeft(IntText(r.quantity), 6) \o <<"  ">>
      \o PadLeft(FmtMoney(r.revenue, symbol), 15)

AvgRegionLine(r, symbol) ==
    PadRight(r.region, 12)
      \o PadLeft(IF r.transaction_count > 0
                 THEN FmtMoneyRatio(r.total_sales.n, 1000 * r.transaction_count, symbol)
                 ELSE FmtMoney(FloatV(0), symbol), 15)

\* the product performance analysis
PerformanceLines(peak, low_products, region_stats, symbol) ==
    << <<"PRODUCT PERFORMANCE ANALYSIS">>,
       <<"--------------------------------------------">>,
       IF peak.found
       THEN <<"Best Selling Day: ">> \o peak.date \o <<"  (Revenue: ">>
              \o FmtMoney(peak.revenue, symbol) \o <<", Transactions: ">>
              \o IntText(peak.transaction_count) \o <<")">>
       ELSE <<"Best Selling Day: N/A">> >>
    \o (IF low_products # <<>>
        THEN << <<"Low Performing Products (< threshold)">>,
                <<"Product                          Qty          Revenue">> >>
             \o [i \in 1..Len(low_products) |-> LowProductLine(low_products[i], symbol)]
        ELSE << <<"Low Performing Products: None">> >>)
    \o << <<"Average Transaction Value per Region">>,
          <<"Region            Avg Value">> >>
    \o [i \in 1..Len(region_stats) |-> AvgRegionLine(region_stats[i], symbol)]

\* bool(e.get('API_Match', False))
IsMatched(e) == Get(e, "API_Match", BoolV(FALSE)) = BoolV(TRUE)

\* f"{pid}:{pname}".strip(':')
LabelOf(e) ==
    LET pid == PyStr(Get(e, "ProductID", StrV(<<>>)))
        pname == PyStr(Get(e, "ProductName", StrV(<<>>)))
    IN LStripChars(RStripChars(pid \o <<":">> \o pname, {":"}), {":"})

\* not_enriched: the labels of the unmatched records, the empty ones left out
NotEnriched(etxns) ==
    LET failed == SelectSeq(etxns, LAMBDA e : ~IsMatched(e))
        labels == [i \in 1..Len(failed) |-> LabelOf(failed[i])]
    IN SelectSeq(labels, LAMBDA l : l # <<>>)

sAllEnriched == <<"All products enriched successfully (or enrichment not attempted).">>

\* the lines of the API enrichment summary for the counts and the labels
ApiSummary(api_total, api_success, not_enriched) ==
    << <<"API ENRICHMENT SUMMARY">>,
       <<"--------------------------------------------">>,
       <<"Total products enriched: ">> \o IntText(api_success) \o <<" of ">>
           \o IntText(api_total),
       <<"Success rate: ">>
           \o (IF api_total > 0 THEN Fixed2(api_success * 100, api_total, FALSE)
                                ELSE Fixed2(0, 1, FALSE)) \o <<"%">> >>
    \o (IF not_enriched # <<>>
        THEN << <<"Products not enriched:">> >>
             \o [i \in 1..Len(not_enriched) |-> <<" - ">> \o not_enriched[i]]
        ELSE <<sAllEnriched>>)

\* sorted(set(labels))
SortedSet(labels) == StableSort(FirstOccurrences(labels), StrLess)

\* the API enrichment summary
ApiLines(etxns) ==
    ApiSummary(Len(etxns), Len(SelectSeq(etxns, IsMatched)), SortedSet(NotEnriched(etxns)))

\* the directory os.path.abspath resolves a relative path against
Cwd == <<"/", "w">>

\* os.path.abspath(path) of a path without '.' or '..' components
AbsPath(path) == IF path # <<>> /\ Head(path) = "/" THEN path ELSE Cwd \o <<"/">> \o path

\* report_text
ReportText(txns, etxns, generated_ts, symbol, threshold) ==
    JoinLines(SummaryLines(Len(txns), calculate_total_revenue(txns), ReportDates(txns),
                           generated_ts, symbol)
                \o RegionLines(region_wise_sales(txns), symbol)
                \o TopProductLines(top_selling_products(txns, 5), symbol)
                \o TopCustomerLines(Take(customer_analysis(txns), 5), symbol)
                \o TrendLines(daily_sales_trend(txns), symbol)
                \o PerformanceLines(find_peak_sales_day(txns),
                                    low_performing_products(txns, threshold),
                                    region_wise_sales(txns), symbol)
                \o ApiLines(etxns))

\* ReportOutcome returning the text it wrote
ReportOutcome_ReturnsText(report_text, output_file) ==
    [file |-> [exists |-> TRUE, path |-> output_file, text |-> report_text],
     returned |-> report_text]

\* the file generate_sales_report writes and the value it returns
ReportOutcome(report_text, output_file) ==
    [file |-> [exists |-> TRUE, path |-> output_file, text |-> report_text],
     returned |-> AbsPath(output_file)]

\* generate_sales_report; generated_ts is what datetime.now() gives, formatted
generate_sales_report(txns, etxns, output_file, generated_ts, symbol, threshold) ==
    ReportOutcome(ReportText(txns, etxns, generated_ts, symbol, threshold), output_file)

----------------------------------------------------------------------------
(* Inputs of generate_sales_report *)

MaxReportEnriched == 3

\* LOW_THRESHOLD of main.py
LOW_THRESHOLD == 10

\* the output_file main passes
OUTPUT_FILE == <<"output", "/", "sales_report.txt">>

\* a value of datetime.now().strftime('%Y-%m-%d %H:%M:%S')
sNow == <<"2026-01-01 00:00:00">>

\* Lists of valid transactions: none, one, two with distinct regions, dates
\* and customers, three with a blank Region, Date, ProductName and
\* CustomerID, and two with a quantity above the threshold.
ReportTxnChoices ==
    { <<>>,
      << [BaseTxn EXCEPT !.Date = StrV(sD01)] >>,
      << [BaseTxn EXCEPT !.Date = StrV(sD10)],
         [BaseTxn EXCEPT !.TransactionID = StrV(<<"T", "2">>), !.Date = StrV(sD02),
                         !.ProductName = StrV(<<"G">>), !.UnitPrice = Units(7),
                         !.CustomerID = StrV(<<"C", "2">>), !.Region = StrV(sSouth)] >>,
      << [BaseTxn EXCEPT !.Date = StrV(sD10), !.ProductName = StrV(<<" ", "W">>),
                         !.Quantity = IntV(1), !.UnitPrice = FloatV(2004),
                         !.Region = StrV(<<" ">>)],
         [BaseTxn EXCEPT !.Date = StrV(<<>>), !.ProductName = StrV(<<>>),
                         !.Quantity = IntV(3), !.UnitPrice = Units(1)],
         [BaseTxn EXCEPT !.Date = StrV(sD02), !.ProductName = StrV(<<"G">>),
                         !.Quantity = IntV(1), !.CustomerID = StrV(<<>>)] >>,
      << [BaseTxn EXCEPT !.Date = StrV(sD01), !.Quantity = IntV(12),
                         !.UnitPrice = FloatV(12500)],
         [BaseTxn EXCEPT !.Date = StrV(sD01), !.ProductName = StrV(<<"A">>),
                         !.CustomerID = StrV(<<"C", "2">>)] >> }

\* Enriched records: matched; unmatched with a ProductID and a ProductName;
\* unmatched with neither; unmatched with a ProductName that ends with a
\* colon; without the API fields and without a ProductName.
ReportEnrichedUniverse ==
    { EnrichOne([BaseTxn EXCEPT !.ProductID = StrV(<<"P", "1", "0", "0">>)],
                [k \in {100} |-> CatalogEntry(StrV(sToys), StrV(sAcme), FloatV(4500))]),
      EnrichOne([BaseTxn EXCEPT !.ProductID = StrV(<<"P", "9", "9", "9">>)], <<>>),
      EnrichOne([BaseTxn EXCEPT !.ProductID = StrV(<<"P", "0", "0", "7">>),
                                !.ProductName = StrV(<<"G">>)], <<>>),
      EnrichOne([BaseTxn EXCEPT !.ProductID = StrV(<<>>), !.ProductName = StrV(<<>>)], <<>>),
      EnrichOne([BaseTxn EXCEPT !.ProductName = StrV(<<"W", ":">>)], <<>>),
      [BaseTxn EXCEPT !.ProductName = StrV(<<>>)] }

SetReport(res) ==
    /\ report_file' = res.file
    /\ report_returned' = res.returned

\* generate_sales_report not called
RepIdle ==
    /\ report_txns = <<>>
    /\ report_etxns = <<>>
    /\ report_file = [exists |-> FALSE, path |-> <<>>, text |-> <<>>]
    /\ report_returned = <<>>

\* the first call: any list of transactions, no enriched record
RepInit ==
    /\ report_txns \in ReportTxnChoices
    /\ report_etxns = <<>>
    /\ \E res \in {generate_sales_report(report_txns, <<>>, OUTPUT_FILE, sNow,
                                          CURRENCY_SYMBOL, LOW_THRESHOLD)} :
         /\ report_file = res.file
         /\ report_returned = res.returned

\* generate_sales_report called with the same transactions and one more
\* enriched record
RenderWithEnrichedAdded ==
    /\ Len(report_etxns) < MaxReportEnriched
    /\ \E e \in ReportEnrichedUniverse : report_etxns' = Append(report_etxns, e)
    /\ SetReport(generate_sales_report(report_txns, report_etxns', OUTPUT_FILE, sNow,
                                       CURRENCY_SYMBOL, LOW_THRESHOLD))
    /\ UNCHANGED report_txns

RepNext == RenderWithEnrichedAdded /\ UNCHANGED <<valVars, aggVars, enrVars, readVars, runVars>>

----------------------------------------------------------------------------
(* utils/file_handler.py: parse_transactions *)

NUMERIC_STRIPPERS == {",", "$", "EURO", "POUND", " "}

\* str.replace(a, b) for one-character a and b
ReplaceChar(s, a, b) == [i \in 1..Len(s) |-> IF s[i] = a THEN b ELSE s[i]]

\* the loop replacing two spaces by one until no two spaces are adjacent
RECURSIVE CollapseSpaces(_)
CollapseSpaces(s) ==
    IF Len(s) < 2 THEN s
    ELSE IF s[1] = " " /\ s[2] = " " THEN CollapseSpaces(Tail(s))
    ELSE <<s[1]>> \o CollapseSpaces(Tail(s))

\* _clean_product_name
clean_product_name(name) == CollapseSpaces(Strip(ReplaceChar(name, ",", " ")))

\* _sanitize_number
sanitize_number(value) ==
    SelectSeq(Strip(value), LAMBDA c : c \notin NUMERIC_STRIPPERS)

\* the thousandths in a sequence of fractional digits; digits after the
\* third are outside the model
FracThousandths(ds) ==
    CASE Len(ds) = 0 -> 0
      [] Len(ds) = 1 -> 100 * DigitsToInt(ds)
      [] Len(ds) = 2 -> 10 * DigitsToInt(ds)
      [] OTHER       -> DigitsToInt(SubSeq(ds, 1, 3))

\* float(s) of a str: an optionally signed decimal literal, nan, or
\* ValueError (Err); exponents, inf and underscores are outside the model
ParseFloat(s) ==
    LET t == Strip(s)
        signed == t # <<>> /\ Head(t) \in {"-", "+"}
        body == IF signed THEN Tail(t) ELSE t
        pieces == SplitOn(body, ".", <<>>)
        whole == pieces[1]
        frac == IF Len(pieces) = 2 THEN pieces[2] ELSE <<>>
        wellFormed == /\ Len(pieces) <= 2
                      /\ whole \o frac # <<>>
                      /\ \A i \in 1..Len(whole) : whole[i] \in DigitChars
                      /\ \A i \in 1..Len(frac) : frac[i] \in DigitChars
        magnitude == 1000 * DigitsToInt(whole) + FracThousandths(frac)
    IN IF Lower(body) = <<"n", "a", "n">> THEN NaN
       ELSE IF wellFormed
            THEN FloatV(IF signed /\ Head(t) = "-" THEN -magnitude ELSE magnitude)
            ELSE Err

\* int(x) of the float x: ValueError (Err) for nan
IntOfFloat(x) == IF x.k = "float" THEN IntV(TruncDiv(x.n, 1000)) ELSE Err

\* the index of a column in EXPECTED_HEADERS
HeaderIndex(h) == CHOOSE i \in 1..Len(EXPECTED_HEADERS) : EXPECTED_HEADERS[i] = h

\* one iteration of the loop of parse_transactions: the rows it appends
ParseLine(line) ==
    LET split == SplitOn(line, "|", <<>>)
        parts == [i \in 1..Len(split) |-> Strip(split[i])]
        q_sane == sanitize_number(parts[HeaderIndex("Quantity")])
        p_sane == sanitize_number(parts[HeaderIndex("UnitPrice")])
        q_raw == IF q_sane = <<>> THEN <<"0">> ELSE q_sane
        p_raw == IF p_sane = <<>> THEN <<"0">> ELSE p_sane
        qty == IntOfFloat(ParseFloat(q_raw))
        price == ParseFloat(p_raw)
        row == [h \in Required |->
                  CASE h = "ProductName" -> StrV(clean_product_name(parts[HeaderIndex(h)]))
                    [] h = "Quantity"    -> qty
                    [] h = "UnitPrice"   -> price
                    [] OTHER             -> StrV(parts[HeaderIndex(h)])]
    IN IF line = <<>> \/ ~Contains(line, <<"|">>) THEN <<>>
       ELSE IF Len(parts) # Len(EXPECTED_HEADERS) THEN <<>>
       ELSE IF qty = Err \/ price = Err THEN <<>>
       ELSE <<row>>

RECURSIVE parse_transactions(_)
parse_transactions(raw_lines) ==
    IF raw_lines = <<>> THEN <<>>
    ELSE ParseLine(Head(raw_lines)) \o parse_transactions(Tail(raw_lines))

----------------------------------------------------------------------------
(* utils/api_handler.py: fetch_all_products, create_product_mapping *)

\* how the catalog request can fail: requests is not installed, the request
\* times out, the status is not 2xx, the body is not the expected JSON
FetchFailures == {"no_library", "timeout", "bad_status", "malformed_body"}

\* the keys fetch_all_products copies from a product of the response
ProductKeys == {"id", "title", "category", "brand", "price", "rating"}

\* fetch_all_products with every failure raised to the caller
fetch_all_products_Raising(response) ==
    IF response.outcome \in FetchFailures
    THEN [raised |-> TRUE, value |-> <<>>]
    ELSE [raised |-> FALSE,
          value |-> [i \in 1..Len(response.products) |->
                       [key \in ProductKeys |-> Get(response.products[i], key, None)]]]

\* fetch_all_products for a response [outcome, products]: the list returned,
\* raised telling whether an exception leaves the function
fetch_all_products(response) ==
    IF response.outcome = "no_library" THEN [raised |-> FALSE, value |-> <<>>]
    ELSE IF response.outcome \in FetchFailures
         THEN [raised |-> FALSE, value |-> <<>>]
         ELSE [raised |-> FALSE,
               value |-> [i \in 1..Len(response.products) |->
                            [key \in ProductKeys |-> Get(response.products[i], key, None)]]]

\* create_product_mapping: the products whose id is an int, the last one of
\* each id
create_product_mapping(api_products) ==
    LET ids == {api_products[i]["id"].n :
                  i \in {j \in 1..Len(api_products) : api_products[j]["id"].k = "int"}}
        last(k) == CHOOSE i \in 1..Len(api_products) :
                     /\ api_products[i]["id"] = IntV(k)
                     /\ \A j \in (i + 1)..Len(api_products) : api_products[j]["id"] # IntV(k)
    IN IF ids = {} THEN <<>>
       ELSE [k \in ids |-> [title    |-> api_products[last(k)]["title"],
                            category |-> api_products[last(k)]["category"],
                            brand    |-> api_products[last(k)]["brand"],
                            rating   |-> api_products[last(k)]["rating"]]]

----------------------------------------------------------------------------
(* main.py: main *)

\* the try of main around its steps: an exception raised by a step ends the
\* run in the except clause, else the step that follows is due
NextStep_Ignoring(raised, following) == following

NextStep(raised, following) == IF raised THEN "aborted" ELSE following

----------------------------------------------------------------------------
(* Inputs of main *)

MaxRunLines == 2

sLine3 == <<"T", "3", "|", "d", "1", "|", "P", "7", "|", "A", ",", " ", " ", "B", "|",
            " ", "3", " ", "|", "$", "2", ".", "5", "0", "|", "C", "1", "|",
            "N", "o", "r", "t", "h">>

sZeroQuantity == <<"T", "4", "|", "d", "2", "|", "P", "1", "0", "0", "|", "W", "|", "0",
                   "|", "5", ".", "0", "|", "C", "2", "|", "S", "o", "u", "t", "h">>

\* Data lines of data/sales_data.txt: two clean lines, one of them followed
\* by blanks; one whose name and numbers need cleaning; one that validation
\* rejects; one without the eight fields.
RunLineUniverse ==
    { sLine1, sLine2 \o <<" ", " ">>, sLine3, sZeroQuantity, sThreeNames }

RECURSIVE SeqsUpTo(_, _)
SeqsUpTo(S, n) ==
    IF n = 0 THEN {<<>>}
    ELSE SeqsUpTo(S, n - 1)
           \cup {Append(q, e) : q \in {r \in SeqsUpTo(S, n - 1) : Len(r) = n - 1}, e \in S}

\* data/sales_data.txt: missing, or the header followed by data lines
RunFiles ==
    {[exists |-> FALSE, lines |-> <<>>]}
      \cup {[exists |-> TRUE, lines |-> ReadLines(<<ExpectedHeaderLine>> \o bodies, TRUE)] :
              bodies \in SeqsUpTo(RunLineUniverse, MaxRunLines)}

\* what the user answers at step 3: no filter, a region, a minimum amount
RunFilterChoices ==
    { <<None, None, None>>,
      <<StrV(sNorth), None, None>>,
      <<None, Units(10), None>> }

CatalogProduct(id, category) ==
    [id |-> id, title |-> StrV(<<"t">>), category |-> category,
     brand |-> StrV(sAcme), price |-> Units(9), rating |-> FloatV(4500)]

\* the products of a response: none, product 100, and product 100 with a
\* product whose id is a str and one without a category
CatalogChoices ==
    { <<>>,
      << CatalogProduct(IntV(100), StrV(sToys)) >>,
      << CatalogProduct(IntV(100), StrV(sToys)),
         CatalogProduct(StrV(<<"7">>), StrV(sToys)),
         Pop(CatalogProduct(IntV(9), None), "category") >> }

\* how the catalog request ends
Responses ==
    {[outcome |-> f, products |-> <<>>] : f \in FetchFailures}
      \cup {[outcome |-> "ok", products |-> c] : c \in CatalogChoices}

\* main not called
RunIdle ==
    /\ pc = "idle"
    /\ steps = <<>>
    /\ parsed = <<>>
    /\ http = "not_called"
    /\ products = <<>>

\* main called
RunStart ==
    /\ pc = "read"
    /\ steps = <<>>
    /\ parsed = <<>>
    /\ http = "not_called"
    /\ products = <<>>

\* data/sales_data.txt when main is called
RunSourceInit ==
    /\ source_file \in RunFiles
    /\ read_result = [error |-> "", lines |-> <<>>]

\* step 1: read_sales_data; the exception it raises ends the run
RunRead ==
    /\ pc = "read"
    /\ steps' = Append(steps, 1)
    /\ read_result' = read_sales_data(source_file)
    /\ pc' = NextStep(read_result'.error # "", "parse")
    /\ UNCHANGED <<source_file, parsed, http, products, valVars, aggVars, enrVars, repVars>>

\* step 2: parse_transactions
RunParse ==
    /\ pc = "parse"
    /\ steps' = Append(steps, 2)
    /\ parsed' = parse_transactions(read_result.lines)
    /\ pc' = "filter"
    /\ UNCHANGED <<http, products, valVars, aggVars, enrVars, readVars, repVars>>

\* step 3: the filter options the user enters
RunFilterOptions ==
    /\ pc = "filter"
    /\ steps' = Append(steps, 3)
    /\ \E f \in RunFilterChoices :
         /\ region' = f[1]
         /\ min_amount' = f[2]
         /\ max_amount' = f[3]
    /\ pc' = "validate"
    /\ UNCHANGED <<transactions, valid_records, invalid_count, summary,
                   parsed, http, products, aggVars, enrVars, readVars, repVars>>

\* step 4: validate_and_filter
RunValidate ==
    /\ pc = "validate"
    /\ steps' = Append(steps, 4)
    /\ transactions' = parsed
    /\ SetResults(validate_and_filter(parsed, region, min_amount, max_amount))
    /\ pc' = "analyze"
    /\ UNCHANGED <<region, min_amount, max_amount,
                   parsed, http, products, aggVars, enrVars, readVars, repVars>>

\* step 5: the analyses
RunAnalyze ==
    /\ pc = "analyze"
    /\ steps' = Append(steps, 5)
    /\ records' = valid_records
    /\ top_n' = 5
    /\ low_threshold' = LOW_THRESHOLD
    /\ SetAnalyses(valid_records, 5, LOW_THRESHOLD)
    /\ pc' = "fetch"
    /\ UNCHANGED <<parsed, http, products, valVars, enrVars, readVars, repVars>>

\* step 6: fetch_all_products, however the request ends
RunFetch ==
    /\ pc = "fetch"
    /\ steps' = Append(steps, 6)
    /\ \E response \in Responses :
         /\ http' = response.outcome
         /\ products' = fetch_all_products(response).value
         /\ pc' = NextStep(fetch_all_products(response).raised, "enrich")
    /\ UNCHANGED <<parsed, valVars, aggVars, enrVars, readVars, repVars>>

\* steps 7 and 8: create_product_mapping and enrich_sales_data, which writes
\* the side-file or fails to
RunEnrich ==
    /\ pc = "enrich"
    /\ steps' = steps \o <<7, 8>>
    /\ product_mapping' = create_product_mapping(products)
    /\ enrich_input' = valid_records
    /\ save_raised' \in BOOLEAN
    /\ enriched' = EnrichReturn(enrich_sales_data(valid_records, product_mapping'),
                                save_raised')
    /\ IF save_raised'
       THEN enriched_file' \in FilesAfterRaise(enriched_file,
                                 enrich_sales_data(valid_records, product_mapping'))
       ELSE enriched_file' = [exists |-> TRUE,
                              text |-> save_enriched_data(
                                         enrich_sales_data(valid_records, product_mapping'))]
    /\ pc' = "report"
    /\ UNCHANGED <<parsed, http, products, valVars, aggVars, readVars, repVars>>

\* steps 9 and 10: generate_sales_report, the output directory being the one
\* main created
RunReport ==
    /\ pc = "report"
    /\ steps' = steps \o <<9, 10>>
    /\ report_txns' = valid_records
    /\ report_etxns' = enriched
    /\ SetReport(generate_sales_report(valid_records, enriched, OUTPUT_FILE, sNow,
                                       CURRENCY_SYMBOL, LOW_THRESHOLD))
    /\ pc' = "done"
    /\ UNCHANGED <<parsed, http, products, valVars, aggVars, enrVars, readVars>>

\* the positions of main at which a step is due
StepNames ==
    {"read", "parse", "filter", "validate", "analyze", "fetch", "enrich", "report"}

\* main moves on: every action of RunNext leaves its position, and one of
\* them can be taken at every position of StepNames
StepTaken ==
    /\ pc \in StepNames
    /\ pc' \in (StepNames \cup {"done", "aborted"}) \ {pc}

RunNext ==
    \/ RunRead
    \/ RunParse
    \/ RunFilterOptions
    \/ RunValidate
    \/ RunAnalyze
    \/ RunFetch
    \/ RunEnrich
    \/ RunReport

----------------------------------------------------------------------------
(* Specifications *)

ValidateInit == ValInit /\ AggIdle /\ EnrIdle /\ ReadIdle /\ RepIdle /\ RunIdle
AnalyzeInit == ValIdle /\ AggInit /\ EnrIdle /\ ReadIdle /\ RepIdle /\ RunIdle
EnrichInit == ValIdle /\ AggIdle /\ EnrInit /\ ReadIdle /\ RepIdle /\ RunIdle
ReadFileInit == ValIdle /\ AggIdle /\ EnrIdle /\ ReadInit /\ RepIdle /\ RunIdle
ReportInit == ValIdle /\ AggIdle /\ EnrIdle /\ ReadIdle /\ RepInit /\ RunIdle
RunInit == ValIdle /\ AggIdle /\ EnrIdle /\ RunSourceInit /\ RepIdle /\ RunStart

\* calls of validate_and_filter
SpecValidate == ValidateInit /\ [][ValNext]_vars

\* calls of the analyses of data_processor
SpecAnalyze == AnalyzeInit /\ [][AggNext]_vars

\* calls of enrich_sales_data
SpecEnrich == EnrichInit /\ [][EnrNext]_vars

\* calls of read_sales_data
SpecRead == ReadFileInit /\ [][ReadNext]_vars

\* calls of generate_sales_report
SpecReport == ReportInit /\ [][RepNext]_vars

\* runs of main
SpecRun == RunInit /\ [][RunNext]_vars

\* runs of main in which the step that is due is eventually taken: main is
\* sequential, every call it makes returns or raises (the catalog request has
\* a timeout), and the prompts of step 3 are answered
FairSpecRun == RunInit /\ [][RunNext]_vars /\ WF_pc(StepTaken)

----------------------------------------------------------------------------
(* Claims about validate_and_filter *)

\* The constraints of a transaction record, as the data model states them.
Constraints(r) ==
    /\ Required \subseteq DOMAIN r
    /\ \A f \in Required : Strip(PyStr(r[f])) # <<>>
    /\ r["Quantity"].k = "int" /\ r["Quantity"].n > 0
    /\ r["UnitPrice"].k = "float" /\ r["UnitPrice"].n > 0
    /\ r["TransactionID"].k = "str" /\ StartsWith(r["TransactionID"].s, <<"T">>)
    /\ r["ProductID"].k = "str" /\ StartsWith(r["ProductID"].s, <<"P">>)
    /\ r["CustomerID"].k = "str" /\ StartsWith(r["CustomerID"].s, <<"C">>)

\* C1: every record validate_and_filter returns satisfies all the constraints
\* at once (8 fields present and non-blank, Quantity > 0, UnitPrice > 0, the
\* three prefixes).
C1_ReturnedSatisfyAll ==
    \A i \in 1..Len(valid_records) : Constraints(valid_records[i])

\* The records C2 is about: Quantity = 0, a CustomerID not starting with C,
\* or no Region field.
RejectedKind(t) ==
    \/ Get(t, "Quantity", None) = IntV(0)
    \/ ("CustomerID" \in DOMAIN t /\ ~StartsWith(PyStr(t["CustomerID"]), <<"C">>))
    \/ "Region" \notin DOMAIN t

\* C2: a call whose input is the previous input with one such record added,
\* the filters being the same, reports invalid one higher and the same
\* filtered_by_region, filtered_by_amount and final_count.
C2_RejectedCountedOnce ==
    [][\A i \in 1..Len(transactions') :
         ( /\ transactions = RemoveAt(transactions', i)
           /\ RejectedKind(transactions'[i])
           /\ <<region', min_amount', max_amount'>> = <<region, min_amount, max_amount>> )
         => /\ summary'.invalid = summary.invalid + 1
            /\ invalid_count' = invalid_count + 1
            /\ summary'.filtered_by_region = summary.filtered_by_region
            /\ summary'.filtered_by_amount = summary.filtered_by_amount
            /\ summary'.final_count = summary.final_count
            /\ summary'.total_input = summary.total_input + 1]_vars

\* a record breaking all three rules at once was added to an input that also
\* holds a kept record and a record removed by the region filter
C2_Witness ==
    /\ \E i \in 1..Len(transactions) :
         /\ "Region" \notin DOMAIN transactions[i]
         /\ Get(transactions[i], "Quantity", None) = IntV(0)
         /\ ~StartsWith(PyStr(transactions[i]["CustomerID"]), <<"C">>)
    /\ summary.invalid = 1
    /\ summary.filtered_by_region = 1
    /\ summary.final_count = 1

\* The input positions whose record passed validation.
Passed == {i \in 1..Len(transactions) : RejectRule(transactions[i]) = 0}

RegionRequested == region.k = "str" /\ region.s # <<>>

\* positions removed by a filter on exact equality of the Region field
RegionDroppedExact ==
    {i \in Passed : RegionRequested /\ transactions[i]["Region"] # region}

\* positions removed by a filter on the trimmed Region field
RegionDroppedTrimmed ==
    {i \in Passed : RegionRequested
                    /\ Strip(PyStr(transactions[i]["Region"])) # region.s}

AmountAt(i) ==
    IntTimesFloat(PyInt(transactions[i]["Quantity"]), PyFloat(transactions[i]["UnitPrice"]))

\* min_amount <= a <= max_amount, an absent bound not constraining
InRange(a) ==
    /\ min_amount # None => (a.k = "float" /\ a.n >= min_amount.n)
    /\ max_amount # None => (a.k = "float" /\ a.n <= max_amount.n)

FilterCounts(regionDropped) ==
    /\ summary.filtered_by_region = Cardinality(regionDropped)
    /\ summary.filtered_by_amount =
         Cardinality({i \in Passed \ regionDropped : ~InRange(AmountAt(i))})
    /\ summary.final_count =
         Cardinality({i \in Passed \ regionDropped : InRange(AmountAt(i))})

\* C3 as stated: filtered_by_region counts the valid records whose Region is
\* not exactly equal to the requested region; filtered_by_amount the valid
\* records left whose amount is outside [min_amount, max_amount]; the records
\* left with an amount inside, bounds included, are the ones kept.
C3_ExactRegionMatch == FilterCounts(RegionDroppedExact)

\* C3 amended: the same with the region filter comparing the record's Region
\* trimmed of surrounding whitespace to the requested region.
C3_TrimmedRegionMatch == FilterCounts(RegionDroppedTrimmed)

\* a region and a maximum are requested; a record whose Region matches only
\* once trimmed is removed by the amount filter, another by the region
\* filter, and a record whose amount equals max_amount is kept
C3_Witness ==
    /\ RegionRequested /\ max_amount # None
    /\ summary.filtered_by_region = 1
    /\ summary.filtered_by_amount = 1
    /\ summary.final_count = 1
    /\ \E i \in Passed : /\ transactions[i]["Region"] # region
                         /\ i \notin RegionDroppedTrimmed
                         /\ ~InRange(AmountAt(i))
    /\ \E i \in Passed \ RegionDroppedTrimmed : AmountAt(i) = max_amount

\* the strictly increasing sequences of n input positions
Selections(n) ==
    {f \in [1..n -> 1..Len(transactions)] : \A i \in 1..(n - 1) : f[i] < f[i + 1]}

\* C18: the summary conserves the records (total_input = invalid +
\* filtered_by_region + filtered_by_amount + final_count), final_count is the
\* length of the returned list, the returned invalid count is
\* summary.invalid, and the returned list is a subsequence of the input: its
\* records are input records taken at increasing positions, none twice, and
\* none carries the field _amount.
C18_RecordsConserved ==
    /\ summary.total_input = Len(transactions)
    /\ summary.total_input = summary.invalid + summary.filtered_by_region
                               + summary.filtered_by_amount + summary.final_count
    /\ summary.final_count = Len(valid_records)
    /\ invalid_count = summary.invalid
    /\ \E f \in Selections(Len(valid_records)) :
         \A i \in 1..Len(valid_records) : valid_records[i] = transactions[f[i]]
    /\ \A i \in 1..Len(valid_records) : "_amount" \notin DOMAIN valid_records[i]

\* a call that rejects the first input record, removes the second by the
\* amount filter and returns the third
C18_Witness ==
    /\ Len(transactions) = 3
    /\ summary.invalid = 1
    /\ summary.filtered_by_amount = 1
    /\ summary.final_count = 1
    /\ RejectRule(transactions[1]) # 0
    /\ valid_records = <<transactions[3]>>

----------------------------------------------------------------------------
(* Claims about the analyses *)

RecIdx == 1..Len(records)

\* the sum over the positions S of Quantity * UnitPrice, in thousandths
RECURSIVE SumOfProducts(_)
SumOfProducts(S) ==
    IF S = {} THEN 0
    ELSE LET i == CHOOSE x \in S : TRUE
         IN records[i]["Quantity"].n * records[i]["UnitPrice"].n + SumOfProducts(S \ {i})

RECURSIVE SumOfQuantities(_)
SumOfQuantities(S) ==
    IF S = {} THEN 0
    ELSE LET i == CHOOSE x \in S : TRUE
         IN records[i]["Quantity"].n + SumOfQuantities(S \ {i})

RECURSIVE SumOfTotals(_)
SumOfTotals(rows) ==
    IF rows = <<>> THEN 0 ELSE Head(rows).total_sales.n + SumOfTotals(Tail(rows))

BlankField(i, f) == Strip(records[i][f].s) = <<>>

\* the positions whose record belongs to the region, product or date named
InRegion(r) == {i \in RecIdx : IF BlankField(i, "Region") THEN r = sUnknown
                               ELSE Strip(records[i]["Region"].s) = r}
OfProduct(nm) == {i \in RecIdx : IF BlankField(i, "ProductName") THEN nm = sUnknown
                                 ELSE Strip(records[i]["ProductName"].s) = nm}
OnDate(d) == {i \in RecIdx : ~BlankField(i, "Date") /\ Strip(records[i]["Date"].s) = d}

\* C4: total revenue is the sum of Quantity * UnitPrice over the records, the
\* regional totals add up to it, and each region's total is the sum over its
\* own records, a blank Region counting as Unknown.
C4_RevenueConserved ==
    /\ total_revenue = FloatV(SumOfProducts(RecIdx))
    /\ SumOfTotals(region_sales) = total_revenue.n
    /\ \A i, j \in 1..Len(region_sales) :
         region_sales[i].region = region_sales[j].region => i = j
    /\ \A i \in 1..Len(region_sales) :
         region_sales[i].total_sales.n = SumOfProducts(InRegion(region_sales[i].region))
    /\ \A i \in RecIdx : \E j \in 1..Len(region_sales) : i \in InRegion(region_sales[j].region)

\* records of a blank Region and of two named regions were analysed
C4_Witness ==
    /\ \E i \in RecIdx : BlankField(i, "Region")
    /\ Len(region_sales) >= 3
    /\ \E j \in 1..Len(region_sales) :
         region_sales[j].region = sUnknown /\ region_sales[j].total_sales.n > 0
    /\ \E j \in 1..Len(region_sales) : region_sales[j].transaction_count >= 2

FirstIn(S) == CHOOSE i \in S : \A j \in S : i <= j

\* C5: the regions come by total_sales descending, regions of equal
\* total_sales in the order of their first record in the input.
C5_RegionsOrdered ==
    \A i, j \in 1..Len(region_sales) :
        i < j =>
          /\ region_sales[i].total_sales.n >= region_sales[j].total_sales.n
          /\ region_sales[i].total_sales.n = region_sales[j].total_sales.n
               => FirstIn(InRegion(region_sales[i].region))
                    < FirstIn(InRegion(region_sales[j].region))

\* two regions tie, the one met first sorting after the other by name, and a
\* region met before both has a smaller total
C5_Witness ==
    /\ \E i, j \in 1..Len(region_sales) :
         /\ i < j
         /\ region_sales[i].total_sales = region_sales[j].total_sales
         /\ StrLess(region_sales[j].region, region_sales[i].region)
    /\ \E i, j \in 1..Len(region_sales) :
         /\ i < j
         /\ region_sales[i].total_sales.n > region_sales[j].total_sales.n
         /\ FirstIn(InRegion(region_sales[j].region))
              < FirstIn(InRegion(region_sales[i].region))

ProductNames ==
    {IF BlankField(i, "ProductName") THEN sUnknown
     ELSE Strip(records[i]["ProductName"].s) : i \in RecIdx}

\* product a ranks strictly above product b: more quantity, or as much and
\* more revenue
Outranks(a, b) ==
    \/ SumOfQuantities(OfProduct(a)) > SumOfQuantities(OfProduct(b))
    \/ /\ SumOfQuantities(OfProduct(a)) = SumOfQuantities(OfProduct(b))
       /\ SumOfProducts(OfProduct(a)) > SumOfProducts(OfProduct(b))

TopNames == {top_products[i].name : i \in 1..Len(top_products)}

\* C6: top_selling_products(records, n) holds min(max(n, 0), number of
\* products) distinct products with their summed quantity and revenue, in
\* rank order, and no product left out outranks one that is in.
C6_TopProducts ==
    /\ Len(top_products) = Min(Max(top_n, 0), Cardinality(ProductNames))
    /\ top_n <= 0 => top_products = <<>>
    /\ Cardinality(TopNames) = Len(top_products)
    /\ \A i \in 1..Len(top_products) :
         /\ top_products[i].name \in ProductNames
         /\ top_products[i].quantity = SumOfQuantities(OfProduct(top_products[i].name))
         /\ top_products[i].revenue = FloatV(SumOfProducts(OfProduct(top_products[i].name)))
    /\ \A i, j \in 1..Len(top_products) :
         i < j => ~Outranks(top_products[j].name, top_products[i].name)
    /\ \A a \in ProductNames \ TopNames, b \in TopNames : ~Outranks(a, b)

\* n is positive and smaller than the number of products, and a product
\* first met before the last one returned is left out for its revenue alone
C6_Witness ==
    /\ top_n > 0
    /\ Len(top_products) = top_n
    /\ Cardinality(ProductNames) > top_n
    /\ \E a \in ProductNames \ TopNames :
         /\ SumOfQuantities(OfProduct(a))
              = SumOfQuantities(OfProduct(top_products[top_n].name))
         /\ FirstIn(OfProduct(a)) < FirstIn(OfProduct(top_products[top_n].name))

LowNames(rows) == {rows[i].name : i \in 1..Len(rows)}

\* C7: low_performing_products(records, threshold) holds exactly the products
\* whose summed quantity is below threshold, by (quantity, revenue, name)
\* ascending; and a larger threshold keeps every entry of a smaller one.
C7_LowPerformers ==
    /\ LowNames(low_performers)
         = {nm \in ProductNames : SumOfQuantities(OfProduct(nm)) < low_threshold}
    /\ Cardinality(LowNames(low_performers)) = Len(low_performers)
    /\ \A i \in 1..Len(low_performers) :
         /\ low_performers[i].quantity = SumOfQuantities(OfProduct(low_performers[i].name))
         /\ low_performers[i].revenue = FloatV(SumOfProducts(OfProduct(low_performers[i].name)))
    /\ \A i, j \in 1..Len(low_performers) :
         i < j =>
           LET a == low_performers[i]
               b == low_performers[j]
           IN \/ a.quantity < b.quantity
              \/ (a.quantity = b.quantity /\ a.revenue.n < b.revenue.n)
              \/ (a.quantity = b.quantity /\ a.revenue.n = b.revenue.n
                  /\ StrLess(a.name, b.name))
    /\ \A t \in ThresholdChoices :
         LET other == low_performing_products(records, t)
             entries(rows) == {rows[i] : i \in 1..Len(rows)}
         IN /\ t <= low_threshold => entries(other) \subseteq entries(low_performers)
            /\ low_threshold <= t => entries(low_performers) \subseteq entries(other)

\* two products tie on quantity and revenue and come in name order, against
\* the order they were met in, and a product whose quantity equals the
\* threshold is left out
C7_Witness ==
    /\ \E i, j \in 1..Len(low_performers) :
         /\ i < j
         /\ low_performers[i].quantity = low_performers[j].quantity
         /\ low_performers[i].revenue = low_performers[j].revenue
         /\ FirstIn(OfProduct(low_performers[j].name))
              < FirstIn(OfProduct(low_performers[i].name))
    /\ \E nm \in ProductNames : SumOfQuantities(OfProduct(nm)) = low_threshold

Dates == {Strip(records[i]["Date"].s) : i \in {j \in RecIdx : ~BlankField(j, "Date")}}

\* the revenue daily_sales_trend reports for a date
TrendRevenue(d) == Round2(FloatV(SumOfProducts(OnDate(d))))

\* C8: find_peak_sales_day returns None exactly when no record has a date;
\* otherwise the date of maximal revenue in daily_sales_trend, the least in
\* string order of the dates of that revenue, with its revenue and count.
C8_PeakDay ==
    /\ peak_day.found <=> Dates # {}
    /\ ~peak_day.found => peak_day = NoPeak
    /\ peak_day.found =>
         /\ peak_day.date \in Dates
         /\ peak_day.revenue = TrendRevenue(peak_day.date)
         /\ peak_day.transaction_count = Cardinality(OnDate(peak_day.date))
         /\ \A d \in Dates :
              /\ TrendRevenue(d).n <= peak_day.revenue.n
              /\ TrendRevenue(d) = peak_day.revenue /\ d # peak_day.date
                   => StrLess(peak_day.date, d)
         /\ \E i \in 1..Len(daily_trend) :
              /\ daily_trend[i].date = peak_day.date
              /\ daily_trend[i].revenue = peak_day.revenue
              /\ daily_trend[i].transaction_count = peak_day.transaction_count

\* two dates have the maximal revenue of the trend, the later one met first
\* in the input and with the larger sum before rounding
C8_Witness ==
    /\ peak_day.found
    /\ \E d \in Dates :
         /\ d # peak_day.date
         /\ TrendRevenue(d) = peak_day.revenue
         /\ SumOfProducts(OnDate(d)) > SumOfProducts(OnDate(peak_day.date))
         /\ FirstIn(OnDate(d)) < FirstIn(OnDate(peak_day.date))
    /\ \E i \in RecIdx : BlankField(i, "Date")

----------------------------------------------------------------------------
(* Claims about enrich_sales_data *)

DigitPositions(s) == {i \in 1..Len(s) : s[i] \in DigitChars}

RECURSIVE Pow10(_)
Pow10(n) == IF n = 0 THEN 1 ELSE 10 * Pow10(n - 1)

\* the sum of digit * 10^(number of digits to its right) over the positions P
RECURSIVE PlaceValueSum(_, _, _)
PlaceValueSum(s, P, all) ==
    IF P = {} THEN 0
    ELSE LET i == CHOOSE x \in P : TRUE
         IN DigitVal(s[i]) * Pow10(Cardinality({j \in all : j > i}))
              + PlaceValueSum(s, P \ {i}, all)

\* the integer all the digit characters of s form, in order
AllDigitsValue(s) == PlaceValueSum(s, DigitPositions(s), DigitPositions(s))

\* the positions of the digits that end s
SuffixPositions(s) ==
    {i \in 1..Len(s) : \A j \in i..Len(s) : s[j] \in DigitChars}

\* the integer the trailing digits of s form
NumericSuffixValue(s) == PlaceValueSum(s, SuffixPositions(s), SuffixPositions(s))

ProductIdOf(t) == IF "ProductID" \in DOMAIN t THEN t["ProductID"].s ELSE <<>>

HasCatalogKey(t) ==
    /\ DigitPositions(ProductIdOf(t)) # {}
    /\ AllDigitsValue(ProductIdOf(t)) \in DOMAIN product_mapping

ApiFields == {"API_Category", "API_Brand", "API_Rating", "API_Match"}

\* C9: enrich_sales_data returns one record per input record, in order, each
\* the input record plus the four API fields; API_Match is true and
\* category, brand and rating are the mapping entry's exactly when the
\* integer made of all the digits of ProductID is a key of the mapping;
\* otherwise the three are None and API_Match is false.
C9_EnrichByAllDigits ==
    /\ Len(enriched) = Len(enrich_input)
    /\ \A i \in 1..Len(enriched) :
         LET t == enrich_input[i]
             e == enriched[i]
         IN /\ DOMAIN e = DOMAIN t \cup ApiFields
            /\ \A f \in DOMAIN t : e[f] = t[f]
            /\ e["API_Match"] = BoolV(HasCatalogKey(t))
            /\ HasCatalogKey(t) =>
                 LET info == product_mapping[AllDigitsValue(ProductIdOf(t))]
                 IN /\ e["API_Category"] = info.category
                    /\ e["API_Brand"] = info.brand
                    /\ e["API_Rating"] = info.rating
            /\ ~HasCatalogKey(t) =>
                 /\ e["API_Category"] = None
                 /\ e["API_Brand"] = None
                 /\ e["API_Rating"] = None

\* a record whose digits are separated by a letter was matched, one with
\* leading zeros was matched with a category, and one without a digit was not
C9_Witness ==
    /\ \E i \in 1..Len(enriched) :
         /\ DigitPositions(ProductIdOf(enrich_input[i]))
              # SuffixPositions(ProductIdOf(enrich_input[i]))
         /\ enriched[i]["API_Match"] = BoolV(TRUE)
         /\ enriched[i]["API_Category"] = None
    /\ \E i \in 1..Len(enriched) :
         /\ enriched[i]["API_Match"] = BoolV(TRUE)
         /\ enriched[i]["API_Category"] # None
         /\ enriched[i]["API_Rating"] # None
    /\ \E i \in 1..Len(enriched) :
         /\ "ProductID" \in DOMAIN enrich_input[i]
         /\ DigitPositions(ProductIdOf(enrich_input[i])) = {}
         /\ enriched[i]["API_Match"] = BoolV(FALSE)

StartsWithP(t) == "ProductID" \in DOMAIN t /\ StartsWith(t["ProductID"].s, <<"P">>)

HasSuffixKey(t) ==
    /\ SuffixPositions(ProductIdOf(t)) # {}
    /\ NumericSuffixValue(ProductIdOf(t)) \in DOMAIN product_mapping

\* C10 as stated: for a ProductID starting with P, API_Match is true exactly
\* when the integer its trailing digits form is a key of the mapping.
C10_MatchBySuffix ==
    \A i \in 1..Len(enriched) :
        StartsWithP(enrich_input[i]) =>
            (enriched[i]["API_Match"] = BoolV(TRUE) <=> HasSuffixKey(enrich_input[i]))

\* C10 amended: for a ProductID starting with P, API_Match is true exactly
\* when the integer all its digits form is a key of the mapping; that is the
\* numeric suffix when all the digits of ProductID end it.
C10_MatchByAllDigits ==
    \A i \in 1..Len(enriched) :
        LET t == enrich_input[i]
        IN StartsWithP(t) =>
             /\ enriched[i]["API_Match"] = BoolV(TRUE) <=> HasCatalogKey(t)
             /\ enriched[i]["API_Match"] \in {BoolV(TRUE), BoolV(FALSE)}
             /\ DigitPositions(ProductIdOf(t)) = SuffixPositions(ProductIdOf(t))
                  => (enriched[i]["API_Match"] = BoolV(TRUE) <=> HasSuffixKey(t))

\* a ProductID with digits separated by a letter is matched though its
\* numeric suffix is no key, beside one matched by its numeric suffix
C10_Witness ==
    /\ \E i \in 1..Len(enriched) :
         /\ StartsWithP(enrich_input[i])
         /\ enriched[i]["API_Match"] = BoolV(TRUE)
         /\ ~HasSuffixKey(enrich_input[i])
    /\ \E i \in 1..Len(enriched) :
         /\ StartsWithP(enrich_input[i])
         /\ DigitPositions(ProductIdOf(enrich_input[i]))
              = SuffixPositions(ProductIdOf(enrich_input[i]))
         /\ enriched[i]["API_Match"] = BoolV(TRUE)
         /\ HasSuffixKey(enrich_input[i])

\* the lines of a text, each taken up to the LF that ends it
LinesOf(text) ==
    LET ends == {i \in 1..Len(text) : text[i] = "\n"}
        nth(k) == CHOOSE e \in ends : Cardinality({j \in ends : j <= e}) = k
        startOf(k) == IF k = 1 THEN 1 ELSE nth(k - 1) + 1
    IN [k \in 1..Cardinality(ends) |-> SubSeq(text, startOf(k), nth(k) - 1)]

sTrue == <<"T", "r", "u", "e">>
sFalse == <<"F", "a", "l", "s", "e">>

\* C11: the text save_enriched_data wrote is a header line and one line per
\* enriched record, every line ending with LF and holding 12 fields
\* separated by '|'; the last field of the i-th data line is 'True' or
\* 'False' as API_Match of the i-th enriched record.
C11_SideFileRoundTrip ==
    (enriched_file.exists /\ ~save_raised) =>
        LET text == enriched_file.text
            lines == LinesOf(text)
        IN /\ text # <<>> /\ text[Len(text)] = "\n"
           /\ Len(lines) = 1 + Len(enriched)
           /\ \A i \in 1..Len(lines) : Len(SplitOn(lines[i], "|", <<>>)) = 12
           /\ \A i \in 1..Len(enriched) :
                LET fields == SplitOn(lines[i + 1], "|", <<>>)
                IN fields[Len(fields)] =
                     (IF enriched[i].API_Match = BoolV(TRUE) THEN sTrue ELSE sFalse)

\* C12: when save_enriched_data raises, enrich_sales_data still returns the
\* complete list of enriched records, the one it returns when the write
\* succeeds.
C12_WriteFailureSwallowed ==
    save_raised =>
        /\ enriched = EnrichReturn(enrich_sales_data(enrich_input, product_mapping), FALSE)
        /\ Len(enriched) = Len(enrich_input)
        /\ \A i \in 1..Len(enriched) :
             /\ \A f \in DOMAIN enrich_input[i] : enriched[i][f] = enrich_input[i][f]
             /\ "API_Match" \in DOMAIN enriched[i]

\* the write failed after the file was opened: a matched and an unmatched
\* record are returned and the side-file holds fewer rows than the list
C12_Witness ==
    /\ save_raised
    /\ Len(enriched) = 2
    /\ enriched[1].API_Match = BoolV(TRUE)
    /\ enriched[2].API_Match = BoolV(FALSE)
    /\ enriched_file.exists
    /\ enriched_file.text # save_enriched_data(enriched)

----------------------------------------------------------------------------
(* Claims about read_sales_data *)

\* the lines of the file once the byte order mark is removed
DecodedLines == WithoutBOM(source_file.lines)

IsBlank(line) == Strip(line) = <<>>

\* the position of the first line that is not blank, Len + 1 if none
FirstNonBlank ==
    IF \E i \in 1..Len(DecodedLines) : ~IsBlank(DecodedLines[i])
    THEN CHOOSE i \in 1..Len(DecodedLines) :
           /\ ~IsBlank(DecodedLines[i])
           /\ \A j \in 1..(i - 1) : IsBlank(DecodedLines[j])
    ELSE Len(DecodedLines) + 1

\* the position of the first line after the leading blank lines and the
\* header, if the first non-blank line is one
FirstDataLine ==
    IF FirstNonBlank <= Len(DecodedLines) /\ looks_like_header(DecodedLines[FirstNonBlank])
    THEN FirstNonBlank + 1
    ELSE FirstNonBlank

\* C15: read_sales_data returns, in file order, exactly the non-blank lines
\* that follow the leading blank lines and the header line consumed at the
\* first non-blank position, each right-trimmed: no returned line ends with
\* a newline or other whitespace.
C15_NonBlankRightTrimmed ==
    source_file.exists =>
        /\ read_result.lines =
             [i \in 1..Len(SelectSeq(SubSeq(DecodedLines, FirstDataLine, Len(DecodedLines)),
                                     LAMBDA l : ~IsBlank(l))) |->
                RStrip(SelectSeq(SubSeq(DecodedLines, FirstDataLine, Len(DecodedLines)),
                                 LAMBDA l : ~IsBlank(l))[i])]
        /\ \A i \in 1..Len(read_result.lines) :
             read_result.lines[i][Len(read_result.lines[i])] \notin Whitespace

----------------------------------------------------------------------------
(* Claims about generate_sales_report *)

\* C16 as stated: the value generate_sales_report returns is the report text
\* it wrote to the target path.
C16_ReturnsReportText ==
    report_file.exists /\ report_returned = report_file.text

\* C16 amended: generate_sales_report writes the report text verbatim to the
\* target path and returns the absolute path of that file, not the text.
C16_ReturnsAbsolutePath ==
    /\ report_file.exists
    /\ report_file.path = OUTPUT_FILE
    /\ report_file.text = ReportText(report_txns, report_etxns, sNow,
                                     CURRENCY_SYMBOL, LOW_THRESHOLD)
    /\ report_returned = Cwd \o <<"/">> \o report_file.path
    /\ report_returned # report_file.text

\* a report of two transactions and two enriched records was written
C16_Witness ==
    /\ Len(report_txns) = 2
    /\ Len(report_etxns) = 2
    /\ report_file.exists
    /\ report_file.text[Len(report_file.text)] = "\n"
    /\ report_returned = <<"/", "w", "/", "output", "/", "sales_report.txt">>

\* the enriched records that are unmatched
Unmatched ==
    {i \in 1..Len(report_etxns) :
       Get(report_etxns[i], "API_Match", BoolV(FALSE)) # BoolV(TRUE)}

\* the label 'ProductID:ProductName' of an enriched record
ClaimedLabel(e) ==
    PyStr(Get(e, "ProductID", StrV(<<>>))) \o <<":">>
      \o PyStr(Get(e, "ProductName", StrV(<<>>)))

\* the labels the report lists, in the order of its lines
ListedLabels ==
    LET lines == LinesOf(report_file.text)
        items == SelectSeq(lines, LAMBDA l : l # <<>> /\ Head(l) = " - ")
    IN [j \in 1..Len(items) |-> Tail(items[j])]

\* C17: the API enrichment summary holds the all-success line if and only if
\* no enriched record is unmatched; otherwise it lists, sorted and without
\* duplicates, the label 'ProductID:ProductName' of each distinct unmatched
\* record; and the reported success count plus the number of unmatched
\* records is the reported total.
C17_AllSuccessIffNoneUnmatched ==
    LET lines == LinesOf(report_file.text)
    IN /\ (\E j \in 1..Len(lines) : lines[j] = sAllEnriched) <=> (Unmatched = {})
       /\ Unmatched # {} =>
            /\ {ListedLabels[j] : j \in 1..Len(ListedLabels)}
                 = {ClaimedLabel(report_etxns[i]) : i \in Unmatched}
            /\ \A j \in 1..(Len(ListedLabels) - 1) :
                 StrLess(ListedLabels[j], ListedLabels[j + 1])
       /\ \E succ \in 0..Len(report_etxns) :
            /\ \E j \in 1..Len(lines) :
                 lines[j] = <<"Total products enriched: ">> \o IntText(succ) \o <<" of ">>
                              \o IntText(Len(report_etxns))
            /\ succ + Cardinality(Unmatched) = Len(report_etxns)

----------------------------------------------------------------------------
(* Claims about a run of main *)

\* the catalog request of the run failed
FetchFailed == http \in FetchFailures

ApiFieldsNull(e) ==
    /\ e["API_Match"] = BoolV(FALSE)
    /\ e["API_Category"] = None
    /\ e["API_Brand"] = None
    /\ e["API_Rating"] = None

\* the run is not aborted, the fetch returned the empty list, and once the
\* enrichment step is over the mapping is empty and every valid record has
\* its enriched record, unmatched and with null API fields
Degraded ==
    /\ pc # "aborted"
    /\ products = <<>>
    /\ pc \in {"report", "done"} =>
         /\ product_mapping = <<>>
         /\ Len(enriched) = Len(valid_records)
         /\ \A i \in 1..Len(enriched) : ApiFieldsNull(enriched[i])

\* the run went through enrichment and then wrote the report
ReportWritten ==
    /\ pc = "done"
    /\ steps = <<1, 2, 3, 4, 5, 6, 7, 8, 9, 10>>
    /\ enrich_input = valid_records
    /\ report_etxns = enriched
    /\ report_file.exists

\* C13: in a run whose source file was read, a failure of the catalog fetch
\* (missing HTTP library, timeout, bad status, malformed body) never aborts
\* the run: the fetch yields the empty list, the mapping is empty, every
\* enriched record has API_Match false and null API fields, and the run goes
\* on to enrichment and then to writing the report.
C13_FetchFailureDegrades ==
    /\ [](FetchFailed => Degraded)
    /\ (FetchFailed ~> ReportWritten)

C13_Witness ==
    /\ http = "timeout"
    /\ read_result.error = ""
    /\ Len(valid_records) = 2
    /\ Len(enriched) = 2
    /\ ApiFieldsNull(enriched[1])
    /\ ReportWritten

\* C14: read_sales_data fails with FileNotFoundError when the path does not
\* exist, with nothing read, and the failure ends the run: only step 1 was
\* announced, and nothing was parsed, validated, analysed, fetched, enriched
\* or written to the side-file or to the report.
C14_MissingFileIsFatal ==
    /\ (~source_file.exists /\ steps # <<>>) =>
          /\ read_result = [error |-> "FileNotFoundError", lines |-> <<>>]
          /\ pc = "aborted"
    /\ pc = "aborted" =>
          /\ ~source_file.exists
          /\ steps = <<1>>
          /\ parsed = <<>>
          /\ ValIdle
          /\ AggIdle
          /\ http = "not_called"
          /\ EnrIdle
          /\ enriched_file = NoFile
          /\ RepIdle
          /\ ~report_file.exists

C14_Witness ==
    /\ ~source_file.exists
    /\ read_result.error = "FileNotFoundError"
    /\ pc = "aborted"
    /\ steps = <<1>>

====
